---- MODULE Spec2Model ----
(***************************************************************************)
(* Contribution workflow of thread-overflow-backend: Idea -> SubIdea ->    *)
(* Proposal -> Prototype with the derived counters on Idea, the star       *)
(* balances of users, votes and comments.  The store is modelled as the    *)
(* collections/tables the handlers read and write; every handler is one    *)
(* action in the sequential specification Spec, and the handlers whose     *)
(* interleavings matter are split at their awaits in the concurrent        *)
(* specifications.                                                         *)
(***************************************************************************)
EXTENDS Integers, Sequences, FiniteSets, Bags, TLC

\* ---------------------------------------------------------------- bounds
NumUsers == 2
MaxIdeas == 2
MaxSubIdeas == 2
MaxProposals == 2
MaxPrototypes == 2
MaxComments == 2

Users == 1..NumUsers
IdeaIds == 1..MaxIdeas
SubIdeaIds == 1..MaxSubIdeas
ProposalIds == 1..MaxProposals
PrototypeIds == 1..MaxPrototypes
CommentIds == 1..MaxComments

\* ---------------------------------------------------------------- enums
IdeaStatus == {"OPEN", "CLOSED"}
ProposalStatus == {"PENDING", "ACCEPTED", "REJECTED"}
VoteValues == {1, -1}
NoReason == "null"
NoParent == 0

\* req.user.role of the authenticated actor: user 1 is the administrator.
UserRole(u) == IF u = 1 THEN "ADMIN" ELSE "USER"

VARIABLES
  ideas,       \* id -> [authorId, status, totalProposals, totalPrototypes]
  subIdeas,    \* id -> [authorId, ideaId, title, status]
  proposals,   \* id -> [authorId, subIdeaId, status, rejectionReason, title]
  prototypes,  \* id -> [authorId, proposalId, team]
  votes,       \* bag of rows [userId, kind, targetId, value]
  comments,    \* id -> [authorId, kind, targetId, parentCommentId]
  stars,       \* user -> star balance
  nextId,      \* the next identity of each collection
  credited,    \* <<kind, id>> -> stars credited to the author at creation
  resp,        \* the response of the last completed request
  hist,        \* the responses of the last vote submissions (at most two)
  pcs,         \* the in-flight requests of the concurrent specifications
  watch        \* the routes whose responses resp records

vars == <<ideas, subIdeas, proposals, prototypes, votes, comments, stars,
          nextId, credited, resp, hist, pcs, watch>>

\* ------------------------------------------------------- generic helpers
Remove(f, ks) == [k \in DOMAIN f \ ks |-> f[k]]

Put(f, k, v) == (k :> v) @@ f

RECURSIVE SumOver(_, _)
SumOver(S, f) ==
  IF S = {} THEN 0
  ELSE LET x == CHOOSE y \in S : TRUE IN f[x] + SumOver(S \ {x}, f)

Response(op, status, msg) == [op |-> op, status |-> status, msg |-> msg]

\* ------------------------------------------- relations between the rows
\* where: { ideaId }
SubIdeasOfIdea(sub, i) == {s \in DOMAIN sub : sub[s].ideaId = i}

\* where: { subIdea: { ideaId } }
ProposalsOfIdea(sub, prop, i) ==
  {p \in DOMAIN prop : prop[p].subIdeaId \in SubIdeasOfIdea(sub, i)}

\* where: { proposal: { subIdea: { ideaId } } }
PrototypesOfIdea(sub, prop, proto, i) ==
  {r \in DOMAIN proto : proto[r].proposalId \in ProposalsOfIdea(sub, prop, i)}

\* ------------------------------------------------ error message mapping
\* error.message.includes(part), for the messages the services throw.
MessageParts ==
  { <<"Parent idea not found", "not found">>,
    <<"Sub-idea not found", "not found">>,
    <<"Unauthorized: Only the sub-idea author, idea author, or admin can update this sub-idea", "Unauthorized">>,
    <<"Unauthorized: Only the sub-idea author, idea author, or admin can delete this sub-idea", "Unauthorized">>,
    <<"Unauthorized: Only the sub-idea author, idea author, or admin can change status", "Unauthorized">>,
    <<"A sub-idea with this title already exists for this idea", "already exists">>,
    <<"Cannot delete sub-idea that has proposals. Please delete proposals first.", "Cannot delete">>,
    <<"Status must be either OPEN_FOR_PROTOTYPING or SELF_PROTOTYPING", "must be">>,
    <<"Invalid status value", "Invalid">>,
    <<"Proposal not found", "not found">>,
    <<"Idea not found", "not found">>,
    <<"Unauthorized to update this idea", "Unauthorized">>,
    <<"Unauthorized to delete this idea", "Unauthorized">>,
    <<"Status must be either OPEN or CLOSED", "must be">>,
    <<"Prototype not found", "not found">>,
    <<"Unauthorized: Only the prototype author can add team members", "Unauthorized">>,
    <<"Unauthorized: Only the prototype author or the user themselves can remove team members", "Unauthorized">>,
    <<"Cannot create sub-ideas for closed ideas", "Cannot create">>,
    <<"You already have a sub-idea with this title for this idea", "already have">>,
    <<"You already have a pending proposal for this sub-idea", "already have">>,
    <<"You already have a prototype for this proposal", "already have">>,
    <<"Prototypes can only be created for accepted proposals", "can only be created">>,
    <<"Unauthorized: Only the idea author can accept or reject proposals", "Unauthorized">>,
    <<"Unauthorized: Only the proposal author or admin can delete this proposal", "Unauthorized">>,
    <<"Unauthorized: Only the prototype author or admin can delete this prototype", "Unauthorized">>,
    <<"Cannot update proposal status", "Cannot update">>,
    <<"Cannot update proposal", "Cannot update">>,
    <<"Unauthorized: Only the proposal author can update this proposal", "Unauthorized">>,
    <<"Status must be PENDING, ACCEPTED, or REJECTED", "must be">>,
    <<"Rejection reason is required and must be at least 3 characters long", "must be">>,
    <<"Rejection reason is required and must be at least 3 characters long", "required">> }

Includes(msg, part) == <<msg, part>> \in MessageParts

\* ------------------------------------------------------------ frames
\* The response of a route that is not watched is recorded as NoResponse.
NoResponse == Response("other", 0, "")

Observe(op, status, msg) ==
  IF op \in watch THEN Response(op, status, msg) ELSE NoResponse

Reply(op, status, msg) ==
  /\ resp' = Observe(op, status, msg)
  /\ hist' = <<>>
  /\ pcs' = pcs
  /\ watch' = watch

\* A request that is rejected before any write.
Reject(op, status, msg) ==
  /\ Reply(op, status, msg)
  /\ UNCHANGED <<ideas, subIdeas, proposals, prototypes, votes, comments,
                 stars, nextId, credited>>

\* ------------------------------------------------------------ ideas
\* stars: { increment: 2 } of POST /api/ideas
IdeaReward == 2

\* POST /api/ideas: prisma.idea.create, then prisma.user.update of the stars.
CreateIdea(u) ==
  /\ nextId.idea <= MaxIdeas
  /\ LET id == nextId.idea IN
       /\ ideas' = Put(ideas, id, [authorId |-> u, status |-> "OPEN",
                                   totalProposals |-> 0, totalPrototypes |-> 0])
       /\ stars' = [stars EXCEPT ![u] = @ + IdeaReward]
       /\ credited' = Put(credited, <<"idea", id>>, IdeaReward)
       /\ nextId' = [nextId EXCEPT !.idea = @ + 1]
  /\ Reply("createIdea", 201, "Idea created")
  /\ UNCHANGED <<subIdeas, proposals, prototypes, votes, comments>>

\* PATCH /api/ideas/:id/close
CloseIdea(u, i) ==
  IF i \notin DOMAIN ideas THEN Reject("closeIdea", 404, "Idea not found.")
  ELSE IF ideas[i].authorId # u
    THEN Reject("closeIdea", 403, "You can only close your own ideas.")
  ELSE IF ideas[i].status = "CLOSED"
    THEN Reject("closeIdea", 400, "Idea is already closed.")
  ELSE /\ ideas' = [ideas EXCEPT ![i].status = "CLOSED"]
       /\ Reply("closeIdea", 200, "Idea closed successfully")
       /\ UNCHANGED <<subIdeas, proposals, prototypes, votes, comments, stars,
                      nextId, credited>>

\* req.body.status of PUT /api/ideas/:id: absent, a status of the enum, or a
\* value outside it.
IdeaStatusInputs == IdeaStatus \cup {"undefined", "DONE"}

\* IdeaService.updateIdea up to its first write: existence, authorization,
\* then validateIdeaUpdateInput.
UpdateIdeaCheck(u, i, st) ==
  IF i \notin DOMAIN ideas THEN "Idea not found"
  ELSE IF ideas[i].authorId # u /\ UserRole(u) # "ADMIN"
    THEN "Unauthorized to update this idea"
  ELSE IF st # "undefined" /\ st \notin IdeaStatus
    THEN "Status must be either OPEN or CLOSED"
  ELSE "ok"

\* The catch block of PUT /api/ideas/:id.
IdeaUpdateStatus(msg) ==
  IF Includes(msg, "must be") \/ Includes(msg, "Invalid") THEN 400
  ELSE IF Includes(msg, "Unauthorized") THEN 403
  ELSE IF Includes(msg, "not found") THEN 404
  ELSE 500

\* PUT /api/ideas/:id -> IdeaService.updateIdea: a status that is given is
\* written as it is.
UpdateIdea(u, i, st) ==
  LET msg == UpdateIdeaCheck(u, i, st) IN
  IF msg # "ok" THEN Reject("updateIdea", IdeaUpdateStatus(msg), msg)
  ELSE /\ ideas' = IF st = "undefined" THEN ideas
                   ELSE [ideas EXCEPT ![i].status = st]
       /\ Reply("updateIdea", 200, "Idea updated successfully")
       /\ UNCHANGED <<subIdeas, proposals, prototypes, votes, comments, stars,
                      nextId, credited>>

\* IdeaService.deleteIdea up to its delete.
IdeaServiceDeleteCheck(u, i) ==
  IF i \notin DOMAIN ideas THEN "Idea not found"
  ELSE IF ideas[i].authorId # u /\ UserRole(u) # "ADMIN"
    THEN "Unauthorized to delete this idea"
  ELSE "ok"

\* The catch block of DELETE /api/ideas/:id of the service-backed router.
IdeaDeleteStatus(msg) ==
  IF Includes(msg, "Invalid") THEN 400
  ELSE IF Includes(msg, "Unauthorized") THEN 403
  ELSE IF Includes(msg, "not found") THEN 404
  ELSE 500

\* DELETE /api/ideas/:id -> IdeaService.deleteIdea: findByIdAndDelete removes
\* the idea's document and nothing else.
IdeaServiceDeleteIdea(u, i) ==
  LET msg == IdeaServiceDeleteCheck(u, i) IN
  IF msg # "ok" THEN Reject("serviceDeleteIdea", IdeaDeleteStatus(msg), msg)
  ELSE /\ ideas' = Remove(ideas, {i})
       /\ Reply("serviceDeleteIdea", 200, "Idea deleted successfully")
       /\ UNCHANGED <<subIdeas, proposals, prototypes, votes, comments, stars,
                      nextId, credited>>

\* --------------------------------------------------------- sub-ideas
Titles == {"Plan", "plan"}

\* The 'i' flag of the duplicate-title RegExp.
Lower(t) == IF t = "Plan" THEN "plan" ELSE t

\* SubIdea.findOne({ authorId, ideaId, title: /^title$/i })
ExistingSubIdea(u, i, t) ==
  {s \in DOMAIN subIdeas : /\ subIdeas[s].authorId = u
                           /\ subIdeas[s].ideaId = i
                           /\ Lower(subIdeas[s].title) = Lower(t)}

\* A status check that compares with a value the status never has.
CreateSubIdeaCheckWrongStatus(u, i, t) ==
  IF i \notin DOMAIN ideas THEN "Parent idea not found"
  ELSE IF ideas[i].status = "closed"
    THEN "Cannot create sub-ideas for closed ideas"
  ELSE IF ExistingSubIdea(u, i, t) # {}
    THEN "You already have a sub-idea with this title for this idea"
  ELSE "ok"

\* The outcome of SubIdeaService.createSubIdea before its write: the message
\* of the error it throws, or "ok".
CreateSubIdeaCheck(u, i, t) ==
  IF i \notin DOMAIN ideas THEN "Parent idea not found"
  ELSE IF ideas[i].status = "CLOSED"
    THEN "Cannot create sub-ideas for closed ideas"
  ELSE IF ExistingSubIdea(u, i, t) # {}
    THEN "You already have a sub-idea with this title for this idea"
  ELSE "ok"

\* The catch block of POST /api/subideas.
SubIdeaCreateStatus(msg) ==
  IF Includes(msg, "must be") \/ Includes(msg, "required")
       \/ Includes(msg, "Invalid") THEN 400
  ELSE IF Includes(msg, "not found") THEN 404
  ELSE IF Includes(msg, "already have") \/ Includes(msg, "Cannot create")
    THEN 409
  ELSE 500

\* POST /api/subideas -> SubIdeaService.createSubIdea
CreateSubIdea(u, i, t) ==
  LET msg == CreateSubIdeaCheck(u, i, t) IN
  IF msg # "ok" THEN Reject("createSubIdea", SubIdeaCreateStatus(msg), msg)
  ELSE /\ nextId.subIdea <= MaxSubIdeas
       /\ LET id == nextId.subIdea IN
            /\ subIdeas' = Put(subIdeas, id,
                               [authorId |-> u, ideaId |-> i, title |-> t,
                                status |-> "OPEN_FOR_PROTOTYPING"])
            /\ credited' = Put(credited, <<"subIdea", id>>, 0)
            /\ nextId' = [nextId EXCEPT !.subIdea = @ + 1]
       /\ Reply("createSubIdea", 201, "Sub-idea created successfully")
       /\ UNCHANGED <<ideas, proposals, prototypes, votes, comments, stars>>

\* SubIdeaStatus of models/enums.js
SubIdeaStatus == {"OPEN_FOR_PROTOTYPING", "SELF_PROTOTYPING"}

MayChangeSubIdeaAnyone(u, s) == TRUE

\* isAuthor || isIdeaAuthor || isAdmin of updateSubIdea, deleteSubIdea and
\* changeSubIdeaStatus, for a sub-idea whose populated idea is not null.
MayChangeSubIdea(u, s) ==
  \/ subIdeas[s].authorId = u
  \/ ideas[subIdeas[s].ideaId].authorId = u
  \/ UserRole(u) = "ADMIN"

\* PUT /api/subideas/:id -> SubIdeaService.updateSubIdea.  A title or status
\* of "undefined" is a field absent from the body; reading idea.authorId of
\* a sub-idea whose idea is gone throws a TypeError.
UpdateSubIdea(u, s, t, st) ==
  LET msg ==
        IF st # "undefined" /\ st \notin SubIdeaStatus
          THEN "Status must be either OPEN_FOR_PROTOTYPING or SELF_PROTOTYPING"
        ELSE IF s \notin DOMAIN subIdeas THEN "Sub-idea not found"
        ELSE IF subIdeas[s].ideaId \notin DOMAIN ideas
          THEN "Failed to update sub-idea"
        ELSE IF ~MayChangeSubIdea(u, s)
          THEN "Unauthorized: Only the sub-idea author, idea author, or admin can update this sub-idea"
        ELSE IF /\ t # "undefined" /\ t # subIdeas[s].title
                /\ \E o \in DOMAIN subIdeas \ {s} :
                     /\ subIdeas[o].ideaId = subIdeas[s].ideaId
                     /\ Lower(subIdeas[o].title) = Lower(t)
          THEN "A sub-idea with this title already exists for this idea"
        ELSE "ok"
      status == IF Includes(msg, "must be") \/ Includes(msg, "Invalid") THEN 400
                ELSE IF Includes(msg, "Unauthorized") THEN 403
                ELSE IF Includes(msg, "not found") THEN 404
                ELSE IF Includes(msg, "already exists") THEN 409
                ELSE 500
  IN IF msg # "ok" THEN Reject("updateSubIdea", status, msg)
     ELSE /\ subIdeas' =
               [subIdeas EXCEPT
                  ![s].title = IF t = "undefined" THEN @ ELSE t,
                  ![s].status = IF st = "undefined" THEN @ ELSE st]
          /\ Reply("updateSubIdea", 200, "Sub-idea updated successfully")
          /\ UNCHANGED <<ideas, proposals, prototypes, votes, comments, stars,
                         nextId, credited>>

\* PATCH /api/subideas/:id/status -> SubIdeaService.changeSubIdeaStatus
ChangeSubIdeaStatus(u, s, st) ==
  LET msg ==
        IF st = "undefined" THEN "Status is required"
        ELSE IF st \notin SubIdeaStatus THEN "Invalid status value"
        ELSE IF s \notin DOMAIN subIdeas THEN "Sub-idea not found"
        ELSE IF subIdeas[s].ideaId \notin DOMAIN ideas
          THEN "Failed to change sub-idea status"
        ELSE IF ~MayChangeSubIdea(u, s)
          THEN "Unauthorized: Only the sub-idea author, idea author, or admin can change status"
        ELSE "ok"
      status == IF msg = "Status is required" \/ Includes(msg, "Invalid") THEN 400
                ELSE IF Includes(msg, "Unauthorized") THEN 403
                ELSE IF Includes(msg, "not found") THEN 404
                ELSE 500
  IN IF msg # "ok" THEN Reject("changeSubIdeaStatus", status, msg)
     ELSE /\ subIdeas' = [subIdeas EXCEPT ![s].status = st]
          /\ Reply("changeSubIdeaStatus", 200,
                   "Sub-idea status updated successfully")
          /\ UNCHANGED <<ideas, proposals, prototypes, votes, comments, stars,
                         nextId, credited>>

\* DELETE /api/subideas/:id -> SubIdeaService.deleteSubIdea
DeleteSubIdea(u, s) ==
  LET msg ==
        IF s \notin DOMAIN subIdeas THEN "Sub-idea not found"
        ELSE IF subIdeas[s].ideaId \notin DOMAIN ideas
          THEN "Failed to delete sub-idea"
        ELSE IF ~MayChangeSubIdea(u, s)
          THEN "Unauthorized: Only the sub-idea author, idea author, or admin can delete this sub-idea"
        ELSE IF \E p \in DOMAIN proposals : proposals[p].subIdeaId = s
          THEN "Cannot delete sub-idea that has proposals. Please delete proposals first."
        ELSE "ok"
      status == IF Includes(msg, "Invalid") THEN 400
                ELSE IF Includes(msg, "Unauthorized") THEN 403
                ELSE IF Includes(msg, "not found") THEN 404
                ELSE IF Includes(msg, "Cannot delete") THEN 409
                ELSE 500
  IN IF msg # "ok" THEN Reject("deleteSubIdea", status, msg)
     ELSE /\ subIdeas' = Remove(subIdeas, {s})
          /\ Reply("deleteSubIdea", 200, "Sub-idea deleted successfully")
          /\ UNCHANGED <<ideas, proposals, prototypes, votes, comments, stars,
                         nextId, credited>>

\* --------------------------------------------------------- proposals
\* stars: { increment: 2 } of POST /proposals/submit/:subIdeaId
ProposalReward == 2

\* The database failing a statement: never, inside the transaction, or in the
\* statement that follows it.
Faults == {"none", "tx", "after"}

NewProposal(u, s) ==
  [authorId |-> u, subIdeaId |-> s, status |-> "PENDING",
   rejectionReason |-> NoReason, title |-> "first"]

\* A submission that leaves the counter alone.
IncTotalProposalsOmitted(idx, i, n) == idx

\* { $inc: { totalProposals: n } } / totalProposals: { increment: n }: a
\* relative update of the row as it is when the statement runs.
IncTotalProposals(idx, i, n) ==
  [idx EXCEPT ![i].totalProposals = @ + n]

\* { $inc: { totalPrototypes: n } } / totalPrototypes: { increment: n }
IncTotalPrototypes(idx, i, n) ==
  [idx EXCEPT ![i].totalPrototypes = @ + n]

\* POST /proposals/submit/:subIdeaId (prisma): find the sub-idea, create the
\* proposal and increment the counter in one $transaction, then credit the
\* author's stars in a statement of its own.
SubmitProposal(u, s, fault) ==
  IF s \notin DOMAIN subIdeas
    THEN /\ fault = "none"
         /\ Reject("submitProposal", 404, "Sub-idea not found.")
  ELSE IF fault = "tx"
    THEN Reject("submitProposal", 500,
                "An error occurred while creating the proposal.")
  ELSE IF subIdeas[s].ideaId \notin DOMAIN ideas
    THEN /\ fault = "none"
         /\ Reject("submitProposal", 404, "Sub-idea not found.")
  ELSE /\ nextId.proposal <= MaxProposals
       /\ LET id == nextId.proposal IN
            /\ proposals' = Put(proposals, id, NewProposal(u, s))
            /\ ideas' = IncTotalProposals(ideas, subIdeas[s].ideaId, 1)
            /\ nextId' = [nextId EXCEPT !.proposal = @ + 1]
            /\ IF fault = "after"
                 THEN /\ stars' = stars
                      /\ credited' = Put(credited, <<"proposal", id>>, 0)
                      /\ Reply("submitProposal", 500,
                               "An error occurred while creating the proposal.")
                 ELSE /\ stars' = [stars EXCEPT ![u] = @ + ProposalReward]
                      /\ credited' =
                           Put(credited, <<"proposal", id>>, ProposalReward)
                      /\ Reply("submitProposal", 201, "created")
       /\ UNCHANGED <<subIdeas, prototypes, votes, comments>>

\* Proposal.findOne({ authorId, subIdeaId, status: PENDING })
ExistingPendingProposal(prop, u, s) ==
  {p \in DOMAIN prop : /\ prop[p].authorId = u
                       /\ prop[p].subIdeaId = s
                       /\ prop[p].status = "PENDING"}

\* The checks of ProposalService.createProposal inside its transaction.
CreateProposalCheck(u, s) ==
  IF s \notin DOMAIN subIdeas THEN "Sub-idea not found"
  ELSE IF ExistingPendingProposal(proposals, u, s) # {}
    THEN "You already have a pending proposal for this sub-idea"
  ELSE "ok"

\* The catch block of POST /api/proposals/submit/:subIdeaId.
ProposalCreateStatus(msg) ==
  IF Includes(msg, "must be") \/ Includes(msg, "required")
       \/ Includes(msg, "Invalid") THEN 400
  ELSE IF Includes(msg, "not found") THEN 404
  ELSE IF Includes(msg, "already have") THEN 409
  ELSE 500

\* POST /api/proposals/submit/:subIdeaId -> ProposalService.createProposal:
\* one withTransaction that saves the proposal and $inc's the counter of the
\* parent idea (findByIdAndUpdate matches nothing when the idea is gone).
CreateProposal(u, s, fault) ==
  LET msg == CreateProposalCheck(u, s) IN
  IF msg # "ok"
    THEN /\ fault = "none"
         /\ Reject("createProposal", ProposalCreateStatus(msg), msg)
  ELSE IF fault = "tx"
    THEN Reject("createProposal", ProposalCreateStatus("Failed to create proposal"),
                "Failed to create proposal")
  ELSE /\ fault = "none"
       /\ nextId.proposal <= MaxProposals
       /\ LET id == nextId.proposal
              i == subIdeas[s].ideaId IN
            /\ proposals' = Put(proposals, id, NewProposal(u, s))
            /\ ideas' = IF i \in DOMAIN ideas
                          THEN IncTotalProposals(ideas, i, 1) ELSE ideas
            /\ credited' = Put(credited, <<"proposal", id>>, 0)
            /\ nextId' = [nextId EXCEPT !.proposal = @ + 1]
       /\ Reply("createProposal", 201, "Proposal submitted successfully")
       /\ UNCHANGED <<subIdeas, prototypes, votes, comments, stars>>

\* The rejectionReason of the request body: absent, or a text.
Reasons == {NoReason, "duplicate"}

\* ProposalService.validateStatusUpdateInput
ValidateStatusUpdateInput(st, reason) ==
  IF st \notin ProposalStatus THEN "Status must be PENDING, ACCEPTED, or REJECTED"
  ELSE IF st = "REJECTED" /\ reason = NoReason
    THEN "Rejection reason is required and must be at least 3 characters long"
  ELSE "ok"

\* proposal.subIdea.idea.authorId of a populated proposal; reading it throws a
\* TypeError when the sub-idea or the idea is gone.
HasIdeaAuthor(p) ==
  /\ proposals[p].subIdeaId \in DOMAIN subIdeas
  /\ subIdeas[proposals[p].subIdeaId].ideaId \in DOMAIN ideas

IdeaAuthorOfProposalAuthor(p) == proposals[p].authorId

IdeaAuthorOf(p) == ideas[subIdeas[proposals[p].subIdeaId].ideaId].authorId

UpdateProposalStatusCheck(u, p, st, reason) ==
  LET v == ValidateStatusUpdateInput(st, reason) IN
  IF v # "ok" THEN v
  ELSE IF p \notin DOMAIN proposals THEN "Proposal not found"
  ELSE IF ~HasIdeaAuthor(p) THEN "Failed to update proposal status"
  ELSE IF IdeaAuthorOf(p) # u
    THEN "Unauthorized: Only the idea author can accept or reject proposals"
  ELSE IF proposals[p].status # "PENDING" THEN "Cannot update proposal status"
  ELSE "ok"

\* The catch block of PATCH /api/proposals/:id/status.
ProposalStatusStatus(msg) ==
  IF Includes(msg, "must be") \/ Includes(msg, "Invalid") THEN 400
  ELSE IF Includes(msg, "Unauthorized") THEN 403
  ELSE IF Includes(msg, "not found") THEN 404
  ELSE IF Includes(msg, "Cannot update") THEN 409
  ELSE 500

\* PATCH /api/proposals/:id/status -> ProposalService.updateProposalStatus
UpdateProposalStatus(u, p, st, reason) ==
  LET msg == UpdateProposalStatusCheck(u, p, st, reason) IN
  IF msg # "ok"
    THEN Reject("updateProposalStatus", ProposalStatusStatus(msg), msg)
  ELSE /\ proposals' =
            [proposals EXCEPT ![p].status = st,
               ![p].rejectionReason = IF st = "REJECTED" THEN reason ELSE NoReason]
       /\ Reply("updateProposalStatus", 200,
                "Proposal status updated successfully")
       /\ UNCHANGED <<ideas, subIdeas, prototypes, votes, comments, stars,
                      nextId, credited>>

\* PATCH /proposals/:id/status (prisma): the status is written whatever the
\* current status is; an absent rejectionReason leaves the column as it is.
PatchProposalStatus(u, p, st, reason) ==
  IF st \notin ProposalStatus
    THEN Reject("patchProposalStatus", 400, "Invalid status value.")
  ELSE IF p \notin DOMAIN proposals
    THEN Reject("patchProposalStatus", 404, "Proposal not found.")
  ELSE IF ~HasIdeaAuthor(p)
    THEN Reject("patchProposalStatus", 500,
                "An error occurred while updating the status.")
  ELSE IF IdeaAuthorOf(p) # u
    THEN Reject("patchProposalStatus", 403,
                "Forbidden: Only the idea author can accept or reject proposals.")
  ELSE /\ proposals' =
            [proposals EXCEPT ![p].status = st,
               ![p].rejectionReason =
                  IF st = "REJECTED"
                    THEN (IF reason = NoReason THEN @ ELSE reason)
                    ELSE NoReason]
       /\ Reply("patchProposalStatus", 200, "updated")
       /\ UNCHANGED <<ideas, subIdeas, prototypes, votes, comments, stars,
                      nextId, credited>>

\* -------------------------------------------------------- prototypes
\* POST /prototypes/submit/:proposalId (prisma).  proposal.status is read
\* before the null check, so an unknown proposal ends in the catch block.
\* The create writes the prototype's row only, no PrototypeTeamMember row.
SubmitPrototype(u, p, fault) ==
  IF p \notin DOMAIN proposals
    THEN /\ fault = "none"
         /\ Reject("submitPrototype", 500,
                   "An error occurred while creating the prototype.")
  ELSE IF proposals[p].status # "ACCEPTED"
    THEN /\ fault = "none"
         /\ Reject("submitPrototype", 403,
              "Forbidden: Prototypes can only be created for accepted proposals.")
  ELSE IF proposals[p].subIdeaId \notin DOMAIN subIdeas \/ fault = "tx"
    THEN /\ fault # "after"
         /\ Reject("submitPrototype", 500,
                   "An error occurred while creating the prototype.")
  ELSE IF subIdeas[proposals[p].subIdeaId].ideaId \notin DOMAIN ideas
    THEN /\ fault = "none"
         /\ Reject("submitPrototype", 404, "Proposal not found.")
  ELSE /\ fault = "none"
       /\ nextId.prototype <= MaxPrototypes
       /\ LET id == nextId.prototype IN
            /\ prototypes' = Put(prototypes, id,
                                 [authorId |-> u, proposalId |-> p,
                                  team |-> {}])
            /\ ideas' = IncTotalPrototypes(
                          ideas, subIdeas[proposals[p].subIdeaId].ideaId, 1)
            /\ credited' = Put(credited, <<"prototype", id>>, 0)
            /\ nextId' = [nextId EXCEPT !.prototype = @ + 1]
       /\ Reply("submitPrototype", 201, "created")
       /\ UNCHANGED <<subIdeas, proposals, votes, comments, stars>>

\* Prototype.findOne({ authorId, proposalId })
ExistingPrototype(proto, u, p) ==
  {r \in DOMAIN proto : proto[r].authorId = u /\ proto[r].proposalId = p}

\* The checks of PrototypeService.createPrototype inside its transaction; the
\* last one is the TypeError of proposal.subIdea.ideaId on a missing sub-idea.
CreatePrototypeCheck(u, p) ==
  IF p \notin DOMAIN proposals THEN "Proposal not found"
  ELSE IF proposals[p].status # "ACCEPTED"
    THEN "Prototypes can only be created for accepted proposals"
  ELSE IF ExistingPrototype(prototypes, u, p) # {}
    THEN "You already have a prototype for this proposal"
  ELSE IF proposals[p].subIdeaId \notin DOMAIN subIdeas
    THEN "Failed to create prototype"
  ELSE "ok"

\* The catch block of POST /api/prototypes/submit/:proposalId.
PrototypeCreateStatus(msg) ==
  IF Includes(msg, "must be") \/ Includes(msg, "required")
       \/ Includes(msg, "Invalid") THEN 400
  ELSE IF Includes(msg, "not found") THEN 404
  ELSE IF Includes(msg, "already have") \/ Includes(msg, "can only be created")
    THEN 409
  ELSE 500

\* POST /api/prototypes/submit/:proposalId -> PrototypeService.createPrototype
CreatePrototype(u, p, fault) ==
  LET msg == CreatePrototypeCheck(u, p) IN
  IF msg # "ok"
    THEN /\ fault = "none"
         /\ Reject("createPrototype", PrototypeCreateStatus(msg), msg)
  ELSE IF fault = "tx"
    THEN Reject("createPrototype",
                PrototypeCreateStatus("Failed to create prototype"),
                "Failed to create prototype")
  ELSE /\ fault = "none"
       /\ nextId.prototype <= MaxPrototypes
       /\ LET id == nextId.prototype
              i == subIdeas[proposals[p].subIdeaId].ideaId IN
            /\ prototypes' = Put(prototypes, id,
                                 [authorId |-> u, proposalId |-> p,
                                  team |-> {u}])
            /\ ideas' = IF i \in DOMAIN ideas
                          THEN IncTotalPrototypes(ideas, i, 1) ELSE ideas
            /\ credited' = Put(credited, <<"prototype", id>>, 0)
            /\ nextId' = [nextId EXCEPT !.prototype = @ + 1]
       /\ Reply("createPrototype", 201, "Prototype submitted successfully")
       /\ UNCHANGED <<subIdeas, proposals, votes, comments, stars>>

\* The catch blocks of POST /api/prototypes/:id/team and
\* DELETE /api/prototypes/:id/team/:userId.
TeamStatus(msg) ==
  IF msg = "User is already a team member" THEN 409
  ELSE IF Includes(msg, "Unauthorized")
            \/ msg = "Cannot remove the prototype author from the team" THEN 403
  ELSE IF Includes(msg, "not found") THEN 404
  ELSE 500

\* POST /api/prototypes/:id/team -> PrototypeService.addTeamMember
AddTeamMember(requester, r, u) ==
  LET msg ==
        IF r \notin DOMAIN prototypes THEN "Prototype not found"
        ELSE IF prototypes[r].authorId # requester
          THEN "Unauthorized: Only the prototype author can add team members"
        ELSE IF u \in prototypes[r].team THEN "User is already a team member"
        ELSE "ok"
  IN IF msg # "ok" THEN Reject("addTeamMember", TeamStatus(msg), msg)
     ELSE /\ prototypes' = [prototypes EXCEPT ![r].team = @ \cup {u}]
          /\ Reply("addTeamMember", 200, "Team member added successfully")
          /\ UNCHANGED <<ideas, subIdeas, proposals, votes, comments, stars,
                         nextId, credited>>

\* DELETE /api/prototypes/:id/team/:userId -> PrototypeService.removeTeamMember
RemoveTeamMember(requester, r, u) ==
  LET msg ==
        IF r \notin DOMAIN prototypes THEN "Prototype not found"
        ELSE IF prototypes[r].authorId # requester /\ u # requester
          THEN "Unauthorized: Only the prototype author or the user themselves can remove team members"
        ELSE IF u = prototypes[r].authorId
          THEN "Cannot remove the prototype author from the team"
        ELSE "ok"
  IN IF msg # "ok" THEN Reject("removeTeamMember", TeamStatus(msg), msg)
     ELSE /\ prototypes' = [prototypes EXCEPT ![r].team = @ \ {u}]
          /\ Reply("removeTeamMember", 200, "Team member removed successfully")
          /\ UNCHANGED <<ideas, subIdeas, proposals, votes, comments, stars,
                         nextId, credited>>

\* The catch blocks of DELETE /api/proposals/:id and DELETE /api/prototypes/:id.
DeleteStatus(msg) ==
  IF Includes(msg, "Invalid") THEN 400
  ELSE IF Includes(msg, "Unauthorized") THEN 403
  ELSE IF Includes(msg, "not found") THEN 404
  ELSE 500

\* The checks of ProposalService.deleteProposal; existingProposal.subIdea.ideaId
\* throws after the delete when the sub-idea is gone, which aborts the
\* transaction.
DeleteProposalCheck(u, p) ==
  IF p \notin DOMAIN proposals THEN "Proposal not found"
  ELSE IF proposals[p].authorId # u /\ UserRole(u) # "ADMIN"
    THEN "Unauthorized: Only the proposal author or admin can delete this proposal"
  ELSE IF proposals[p].subIdeaId \notin DOMAIN subIdeas
    THEN "Failed to delete proposal"
  ELSE "ok"

\* DELETE /api/proposals/:id -> ProposalService.deleteProposal: the proposal
\* row is deleted and totalProposals decremented; the prototypes of the
\* proposal are not touched.
DeleteProposal(u, p, fault) ==
  LET msg == DeleteProposalCheck(u, p) IN
  IF msg # "ok"
    THEN /\ fault = "none"
         /\ Reject("deleteProposal", DeleteStatus(msg), msg)
  ELSE IF fault = "tx"
    THEN Reject("deleteProposal", DeleteStatus("Failed to delete proposal"),
                "Failed to delete proposal")
  ELSE /\ fault = "none"
       /\ LET i == subIdeas[proposals[p].subIdeaId].ideaId IN
            /\ proposals' = Remove(proposals, {p})
            /\ ideas' = IF i \in DOMAIN ideas
                          THEN IncTotalProposals(ideas, i, -1) ELSE ideas
            /\ credited' = Remove(credited, {<<"proposal", p>>})
       /\ Reply("deleteProposal", 200, "Proposal deleted successfully")
       /\ UNCHANGED <<subIdeas, prototypes, votes, comments, stars, nextId>>

\* The checks of PrototypeService.deletePrototype;
\* existingPrototype.proposal.subIdea.ideaId throws when the proposal or the
\* sub-idea is gone.
DeletePrototypeCheck(u, r) ==
  IF r \notin DOMAIN prototypes THEN "Prototype not found"
  ELSE IF prototypes[r].authorId # u /\ UserRole(u) # "ADMIN"
    THEN "Unauthorized: Only the prototype author or admin can delete this prototype"
  ELSE IF \/ prototypes[r].proposalId \notin DOMAIN proposals
          \/ proposals[prototypes[r].proposalId].subIdeaId \notin DOMAIN subIdeas
    THEN "Failed to delete prototype"
  ELSE "ok"

\* DELETE /api/prototypes/:id -> PrototypeService.deletePrototype
DeletePrototype(u, r, fault) ==
  LET msg == DeletePrototypeCheck(u, r) IN
  IF msg # "ok"
    THEN /\ fault = "none"
         /\ Reject("deletePrototype", DeleteStatus(msg), msg)
  ELSE IF fault = "tx"
    THEN Reject("deletePrototype", DeleteStatus("Failed to delete prototype"),
                "Failed to delete prototype")
  ELSE /\ fault = "none"
       /\ LET i == subIdeas[proposals[prototypes[r].proposalId].subIdeaId].ideaId IN
            /\ prototypes' = Remove(prototypes, {r})
            /\ ideas' = IF i \in DOMAIN ideas
                          THEN IncTotalPrototypes(ideas, i, -1) ELSE ideas
            /\ credited' = Remove(credited, {<<"prototype", r>>})
       /\ Reply("deletePrototype", 200, "Prototype deleted successfully")
       /\ UNCHANGED <<subIdeas, proposals, votes, comments, stars, nextId>>

\* ------------------------------------------------------------- votes
VoteKinds == {"subIdea", "prototype"}

VoteRow(u, kind, t, v) ==
  [userId |-> u, kind |-> kind, targetId |-> t, value |-> v]

\* The rows that the compound key userId_subIdeaId / userId_prototypeId names.
VotesOfUser(vs, u, kind, t) ==
  {r \in BagToSet(vs) : r.userId = u /\ r.kind = kind /\ r.targetId = t}

\* prisma.vote.groupBy({ by: ['value'], where: { target } }): the count of
\* the rows of one value.
CountVotes(vs, kind, t, v) ==
  LET S == {r \in BagToSet(vs) : r.kind = kind /\ r.targetId = t /\ r.value = v}
  IN SumOver(S, [r \in S |-> CopiesIn(r, vs)])

VoteCounts(vs, kind, t) ==
  LET up == CountVotes(vs, kind, t, 1)
      down == CountVotes(vs, kind, t, -1)
  IN [upvotes |-> up, downvotes |-> down, total |-> up - down]

DeleteVoteKeepsRow(vs, u, kind, t) == vs

\* prisma.vote.delete({ where: key }): removes the row of the key.
DeleteVote(vs, u, kind, t) ==
  LET r == CHOOSE x \in VotesOfUser(vs, u, kind, t) : TRUE
  IN vs (-) SetToBag({r})

UpsertVoteKeepsValue(vs, u, kind, t, v) ==
  IF VotesOfUser(vs, u, kind, t) # {} THEN vs
  ELSE vs (+) SetToBag({VoteRow(u, kind, t, v)})

\* prisma.vote.upsert({ where: key, update: { value }, create: {...} }): the
\* unique index on the key makes it update the row of the key when there is
\* one and insert otherwise.
UpsertVote(vs, u, kind, t, v) ==
  IF VotesOfUser(vs, u, kind, t) # {}
    THEN LET r == CHOOSE x \in VotesOfUser(vs, u, kind, t) : TRUE
         IN (vs (-) SetToBag({r})) (+) SetToBag({VoteRow(u, kind, t, v)})
    ELSE vs (+) SetToBag({VoteRow(u, kind, t, v)})

TargetExists(kind, t) ==
  IF kind = "subIdea" THEN t \in DOMAIN subIdeas ELSE t \in DOMAIN prototypes

TargetIds(kind) == IF kind = "subIdea" THEN SubIdeaIds ELSE PrototypeIds

\* What a completed vote submission is remembered by: the request, the vote
\* state and the counts it found, and the response.
VoteRecord(u, kind, t, v, before, action, after) ==
  [userId |-> u, kind |-> kind, targetId |-> t, value |-> v,
   hadVote |-> VotesOfUser(before, u, kind, t) # {},
   before |-> VoteCounts(before, kind, t),
   action |-> action,
   voteCounts |-> VoteCounts(after, kind, t)]

Remember(h, r) == IF Len(h) = 2 THEN <<h[2], r>> ELSE Append(h, r)

\* POST /votes/subideas/:subIdeaId and POST /votes/prototypes/:prototypeId
SubmitVote(u, kind, t, v) ==
  IF v \notin VoteValues
    THEN Reject("vote", 400, "Vote value must be 1 (upvote) or -1 (downvote)")
  ELSE IF ~TargetExists(kind, t)
    THEN Reject("vote", 404, "not found")
  ELSE LET existing == VotesOfUser(votes, u, kind, t)
           same == \E r \in existing : r.value = v
           after == IF same THEN DeleteVote(votes, u, kind, t)
                    ELSE UpsertVote(votes, u, kind, t, v)
           action == IF same THEN "removed"
                     ELSE IF existing # {} THEN "updated" ELSE "created"
       IN /\ votes' = after
          /\ resp' = Observe("vote", 200, action)
          /\ hist' = IF "vote" \in watch
                       THEN Remember(hist, VoteRecord(u, kind, t, v, votes,
                                                      action, after))
                       ELSE <<>>
          /\ UNCHANGED <<ideas, subIdeas, proposals, prototypes, comments,
                         stars, nextId, credited, pcs, watch>>

\* ------------------------------------- vote submissions, statement by statement
\* The requests in flight: every await of the handler is a step of its own.
VoteRequests == 2
VoteSlots == 1..VoteRequests

\* findUnique found no row (null).
NoVote == 0

VoteRequest(u, kind, t, v, pc, existing, found) ==
  [userId |-> u, kind |-> kind, targetId |-> t, value |-> v, pc |-> pc,
   existingVote |-> existing, found |-> found]

\* What findUnique({ where: key }) returns: the value of the row, or null.
FindVote(vs, u, kind, t) ==
  IF VotesOfUser(vs, u, kind, t) = {} THEN NoVote
  ELSE (CHOOSE x \in VotesOfUser(vs, u, kind, t) : TRUE).value

UniqueViolationIgnored(vs, u, kind, t) == FALSE

\* The unique index on (userId, subIdeaId) and (userId, prototypeId): an
\* insert of a second row of a key is refused.
UniqueViolation(vs, u, kind, t) == VotesOfUser(vs, u, kind, t) # {}

\* The handler answers and the request is over.
Finish(q, status, msg) ==
  /\ pcs' = Remove(pcs, {q})
  /\ resp' = Observe("vote", status, msg)
  /\ UNCHANGED <<hist, watch>>

Goto(q, pc) ==
  /\ pcs' = [pcs EXCEPT ![q].pc = pc]
  /\ UNCHANGED <<resp, hist, watch>>

\* The request arrives: the check of the value.
BeginVote(q, u, kind, t, v) ==
  /\ q \notin DOMAIN pcs
  /\ \A x \in VoteSlots : x < q => x \in DOMAIN pcs
  /\ IF v \notin VoteValues
       THEN Reject("vote", 400, "Vote value must be 1 (upvote) or -1 (downvote)")
       ELSE /\ pcs' = Put(pcs, q, VoteRequest(u, kind, t, v, "findTarget",
                                              NoVote, FALSE))
            /\ UNCHANGED <<ideas, subIdeas, proposals, prototypes, votes,
                           comments, stars, nextId, credited, resp, hist, watch>>

\* prisma.subIdea.findUnique / prisma.prototype.findUnique
FindTarget(q) ==
  /\ q \in DOMAIN pcs /\ pcs[q].pc = "findTarget"
  /\ IF TargetExists(pcs[q].kind, pcs[q].targetId)
       THEN Goto(q, "findExisting")
       ELSE Finish(q, 404, "not found")
  /\ UNCHANGED <<ideas, subIdeas, proposals, prototypes, votes, comments,
                 stars, nextId, credited>>

\* prisma.vote.findUnique
FindExisting(q) ==
  /\ q \in DOMAIN pcs /\ pcs[q].pc = "findExisting"
  /\ LET r == pcs[q] IN
       pcs' = [pcs EXCEPT ![q].pc = "write",
                          ![q].existingVote =
                             FindVote(votes, r.userId, r.kind, r.targetId)]
  /\ UNCHANGED <<ideas, subIdeas, proposals, prototypes, votes, comments,
                 stars, nextId, credited, resp, hist, watch>>

\* prisma.vote.delete when the vote found has the value submitted (it throws
\* when the row is gone); otherwise the read that prisma.vote.upsert starts
\* with.
WriteVote(q) ==
  /\ q \in DOMAIN pcs /\ pcs[q].pc = "write"
  /\ LET r == pcs[q] IN
       IF r.existingVote = r.value
         THEN IF VotesOfUser(votes, r.userId, r.kind, r.targetId) # {}
                THEN /\ votes' = DeleteVote(votes, r.userId, r.kind, r.targetId)
                     /\ Goto(q, "count")
                ELSE /\ votes' = votes
                     /\ Finish(q, 500, "Internal server error")
         ELSE /\ votes' = votes
              /\ pcs' = [pcs EXCEPT ![q].pc = "upsert",
                                    ![q].found =
                                       VotesOfUser(votes, r.userId, r.kind,
                                                   r.targetId) # {}]
              /\ UNCHANGED <<resp, hist, watch>>
  /\ UNCHANGED <<ideas, subIdeas, proposals, prototypes, comments, stars,
                 nextId, credited>>

\* The write of prisma.vote.upsert: the update of the row it read, or the
\* insert of a new row, which the unique index refuses when the key has a row
\* by now.
UpsertWrite(q) ==
  /\ q \in DOMAIN pcs /\ pcs[q].pc = "upsert"
  /\ LET r == pcs[q]
         rows == VotesOfUser(votes, r.userId, r.kind, r.targetId)
     IN IF r.found
          THEN IF rows # {}
                 THEN /\ votes' = UpsertVote(votes, r.userId, r.kind,
                                             r.targetId, r.value)
                      /\ Goto(q, "count")
                 ELSE /\ votes' = votes
                      /\ Finish(q, 500, "Internal server error")
          ELSE IF UniqueViolation(votes, r.userId, r.kind, r.targetId)
                 THEN /\ votes' = votes
                      /\ Finish(q, 500, "Internal server error")
                 ELSE /\ votes' = votes (+) SetToBag({VoteRow(r.userId, r.kind,
                                                             r.targetId, r.value)})
                      /\ Goto(q, "count")
  /\ UNCHANGED <<ideas, subIdeas, proposals, prototypes, comments, stars,
                 nextId, credited>>

\* prisma.vote.groupBy and the answer.
CountAndRespond(q) ==
  /\ q \in DOMAIN pcs /\ pcs[q].pc = "count"
  /\ LET r == pcs[q] IN
       Finish(q, 200, IF r.existingVote = r.value THEN "removed"
                      ELSE IF r.existingVote # NoVote THEN "updated"
                      ELSE "created")
  /\ UNCHANGED <<ideas, subIdeas, proposals, prototypes, votes, comments,
                 stars, nextId, credited>>

\* ---------------------------------------------------------- comments
\* POST /comments/:subIdeaId and POST /comments/:prototypeId/prototype
ParentCommentOkAnyTarget(kind, t, parent) == parent \in DOMAIN comments

\* !parentComment || parentComment.subIdeaId !== subIdeaId (respectively
\* prototypeId), negated.
ParentCommentOk(kind, t, parent) ==
  IF parent \notin DOMAIN comments THEN FALSE
  ELSE comments[parent].kind = kind /\ comments[parent].targetId = t

CreateComment(u, kind, t, parent) ==
  IF ~TargetExists(kind, t) THEN Reject("comment", 404, "not found")
  ELSE IF parent # NoParent /\ ~ParentCommentOk(kind, t, parent)
    THEN Reject("comment", 400, "Parent comment not found or belongs to different target.")
  ELSE /\ nextId.comment <= MaxComments
       /\ comments' = Put(comments, nextId.comment,
                          [authorId |-> u, kind |-> kind, targetId |-> t,
                           parentCommentId |-> parent])
       /\ nextId' = [nextId EXCEPT !.comment = @ + 1]
       /\ Reply("comment", 201, "created")
       /\ UNCHANGED <<ideas, subIdeas, proposals, prototypes, votes, stars,
                      credited>>

\* ------------------------------------------------ cascade delete of an idea
\* The stars DELETE /api/ideas/:id deducts per deleted row.
IdeaDeduction == 1
SubIdeaDeduction == 1
ProposalDeduction == 2
PrototypeDeduction == 3

\* The tables as the transaction sees them.
Tables ==
  [ideas |-> ideas, subIdeas |-> subIdeas, proposals |-> proposals,
   prototypes |-> prototypes, votes |-> votes, comments |-> comments,
   stars |-> stars]

\* starsToDeduct, from the rows found at the start of the transaction.
StarsToDeduct(st, i) ==
  [u \in Users |->
     (IF st.ideas[i].authorId = u THEN IdeaDeduction ELSE 0)
     + SubIdeaDeduction
         * Cardinality({s \in SubIdeasOfIdea(st.subIdeas, i) :
                          st.subIdeas[s].authorId = u})
     + ProposalDeduction
         * Cardinality({p \in ProposalsOfIdea(st.subIdeas, st.proposals, i) :
                          st.proposals[p].authorId = u})
     + PrototypeDeduction
         * Cardinality({r \in PrototypesOfIdea(st.subIdeas, st.proposals,
                                               st.prototypes, i) :
                          st.prototypes[r].authorId = u})]

TargetsIdeaSubIdeasOnly(st, row, i) ==
  /\ row.kind = "subIdea"
  /\ row.targetId \in SubIdeasOfIdea(st.subIdeas, i)

TargetsIdeaOrAnySubIdea(st, row, i) ==
  \/ row.kind = "subIdea"
  \/ /\ row.kind = "prototype"
     /\ row.targetId \in PrototypesOfIdea(st.subIdeas, st.proposals,
                                          st.prototypes, i)

\* Whether a vote or comment row targets a row beneath idea i.
TargetsIdea(st, row, i) ==
  \/ /\ row.kind = "subIdea"
     /\ row.targetId \in SubIdeasOfIdea(st.subIdeas, i)
  \/ /\ row.kind = "prototype"
     /\ row.targetId \in PrototypesOfIdea(st.subIdeas, st.proposals,
                                          st.prototypes, i)

RemoveVotes(vs, S) == [r \in (DOMAIN vs) \ S |-> vs[r]]

\* The statements of the transaction, in order: one star deduction per user
\* of starsToDeduct, then the deleteMany of votes, comments, team members,
\* prototypes, proposals and sub-ideas, then the delete of the idea.
CascadeSteps == NumUsers + 7

CascadeStep(st, i, deduct, k) ==
  IF k <= NumUsers
    THEN IF deduct[k] > 0
           THEN [st EXCEPT !.stars[k] = @ - deduct[k]]
           ELSE st
  ELSE IF k = NumUsers + 1
    THEN [st EXCEPT !.votes =
            RemoveVotes(@, {r \in DOMAIN @ : TargetsIdea(st, r, i)})]
  ELSE IF k = NumUsers + 2
    THEN [st EXCEPT !.comments =
            Remove(@, {c \in DOMAIN @ : TargetsIdea(st, @[c], i)})]
  ELSE IF k = NumUsers + 3
    THEN st
  ELSE IF k = NumUsers + 4
    THEN [st EXCEPT !.prototypes =
            Remove(@, PrototypesOfIdea(st.subIdeas, st.proposals, @, i))]
  ELSE IF k = NumUsers + 5
    THEN [st EXCEPT !.proposals = Remove(@, ProposalsOfIdea(st.subIdeas, @, i))]
  ELSE IF k = NumUsers + 6
    THEN [st EXCEPT !.subIdeas = Remove(@, SubIdeasOfIdea(@, i))]
  ELSE [st EXCEPT !.ideas = Remove(@, {i})]

\* The tables after the first n statements.
RECURSIVE CascadeRun(_, _, _, _)
CascadeRun(st, i, deduct, n) ==
  IF n = 0 THEN st
  ELSE CascadeStep(CascadeRun(st, i, deduct, n - 1), i, deduct, n)

RollbackKeepsPartial(start, partial) == partial

\* prisma.$transaction(async (tx) => ...): a statement that throws rolls the
\* transaction back to the tables it started from.
Rollback(start, partial) == start

\* The ledger of credited stars without the rows that no longer exist.
Forget(st) ==
  Remove(credited,
         {k \in DOMAIN credited :
            \/ k[1] = "idea" /\ k[2] \notin DOMAIN st.ideas
            \/ k[1] = "subIdea" /\ k[2] \notin DOMAIN st.subIdeas
            \/ k[1] = "proposal" /\ k[2] \notin DOMAIN st.proposals
            \/ k[1] = "prototype" /\ k[2] \notin DOMAIN st.prototypes})

\* DELETE /api/ideas/:id, which reads nothing of the requesting user.  failAt
\* names the statement of the transaction that throws (0: none does).
DeleteIdea(i, failAt) ==
  IF i \notin DOMAIN ideas
    THEN /\ failAt = 0
         /\ Reject("deleteIdea", 404, "Idea not found")
  ELSE LET deduct == StarsToDeduct(Tables, i)
           end == IF failAt = 0
                    THEN CascadeRun(Tables, i, deduct, CascadeSteps)
                    ELSE Rollback(Tables,
                                  CascadeRun(Tables, i, deduct, failAt - 1))
       IN /\ IF failAt \in Users THEN deduct[failAt] > 0 ELSE TRUE
          /\ ideas' = end.ideas
          /\ subIdeas' = end.subIdeas
          /\ proposals' = end.proposals
          /\ prototypes' = end.prototypes
          /\ votes' = end.votes
          /\ comments' = end.comments
          /\ stars' = end.stars
          /\ credited' = Forget(end)
          /\ nextId' = nextId
          /\ IF failAt = 0
               THEN Reply("deleteIdea", 200,
                    "Idea and all related data deleted successfully with stars updated")
               ELSE Reply("deleteIdea", 500, "Failed to delete idea")

\* ------------------------- sub-idea creations, statement by statement
\* SubIdeaService.createSubIdea runs outside any transaction: every await is
\* a step of its own, and other requests run between two steps.
SubIdeaRequests == 2
SubIdeaSlots == 1..SubIdeaRequests

SubIdeaRequest(u, i, t, pc) ==
  [userId |-> u, ideaId |-> i, title |-> t, pc |-> pc]

\* The service throws or returns and the route answers.
SubIdeaDone(q, status, msg) ==
  /\ pcs' = Remove(pcs, {q})
  /\ resp' = Observe("createSubIdea", status, msg)
  /\ UNCHANGED <<hist, watch>>

\* The request arrives.
BeginCreateSubIdea(q, u, i, t) ==
  /\ q \notin DOMAIN pcs
  /\ \A x \in SubIdeaSlots : x < q => x \in DOMAIN pcs
  /\ pcs' = Put(pcs, q, SubIdeaRequest(u, i, t, "findIdea"))
  /\ UNCHANGED <<ideas, subIdeas, proposals, prototypes, votes, comments,
                 stars, nextId, credited, resp, hist, watch>>

\* Idea.findById(ideaId) and the check of parentIdea.status
FindParentIdea(q) ==
  /\ q \in DOMAIN pcs /\ pcs[q].pc = "findIdea"
  /\ IF pcs[q].ideaId \notin DOMAIN ideas
       THEN SubIdeaDone(q, SubIdeaCreateStatus("Parent idea not found"),
                        "Parent idea not found")
     ELSE IF ideas[pcs[q].ideaId].status = "CLOSED"
       THEN SubIdeaDone(q,
              SubIdeaCreateStatus("Cannot create sub-ideas for closed ideas"),
              "Cannot create sub-ideas for closed ideas")
     ELSE Goto(q, "findExisting")
  /\ UNCHANGED <<ideas, subIdeas, proposals, prototypes, votes, comments,
                 stars, nextId, credited>>

\* SubIdea.findOne({ authorId, ideaId, title: /^title$/i })
FindExistingSubIdea(q) ==
  /\ q \in DOMAIN pcs /\ pcs[q].pc = "findExisting"
  /\ IF ExistingSubIdea(pcs[q].userId, pcs[q].ideaId, pcs[q].title) # {}
       THEN SubIdeaDone(q,
              SubIdeaCreateStatus(
                "You already have a sub-idea with this title for this idea"),
              "You already have a sub-idea with this title for this idea")
       ELSE Goto(q, "save")
  /\ UNCHANGED <<ideas, subIdeas, proposals, prototypes, votes, comments,
                 stars, nextId, credited>>

\* newSubIdea.save(): the collection has no unique index, the insert is
\* never refused.
SaveSubIdea(q) ==
  /\ q \in DOMAIN pcs /\ pcs[q].pc = "save"
  /\ nextId.subIdea <= MaxSubIdeas
  /\ subIdeas' = Put(subIdeas, nextId.subIdea,
                     [authorId |-> pcs[q].userId, ideaId |-> pcs[q].ideaId,
                      title |-> pcs[q].title,
                      status |-> "OPEN_FOR_PROTOTYPING"])
  /\ credited' = Put(credited, <<"subIdea", nextId.subIdea>>, 0)
  /\ nextId' = [nextId EXCEPT !.subIdea = @ + 1]
  /\ SubIdeaDone(q, 201, "Sub-idea created successfully")
  /\ UNCHANGED <<ideas, proposals, prototypes, votes, comments, stars>>

\* -------------------------- proposal updates, statement by statement
\* PUT /api/proposals/:id -> ProposalService.updateProposal, up to its write:
\* Proposal.findById and the checks of the author and of the status, outside
\* any transaction.  A request that passes them waits for its write.
FindProposalForUpdate(u, p) ==
  LET msg ==
        IF p \notin DOMAIN proposals THEN "Proposal not found"
        ELSE IF proposals[p].authorId # u
          THEN "Unauthorized: Only the proposal author can update this proposal"
        ELSE IF proposals[p].status # "PENDING" THEN "Cannot update proposal"
        ELSE "ok"
  IN /\ u \notin DOMAIN pcs
     /\ IF msg # "ok"
          THEN Reject("updateProposal", ProposalStatusStatus(msg), msg)
          ELSE /\ pcs' = Put(pcs, u, [proposalId |-> p, pc |-> "update"])
               /\ UNCHANGED <<ideas, subIdeas, proposals, prototypes, votes,
                              comments, stars, nextId, credited, resp, hist,
                              watch>>

\* Proposal.findByIdAndUpdate(proposalId, updateFields): the filter is the id
\* alone.  It returns null for a proposal that is gone, and toObject() of
\* null ends in 'Failed to update proposal'.
WriteProposalUpdate(u) ==
  /\ u \in DOMAIN pcs /\ pcs[u].pc = "update"
  /\ pcs' = Remove(pcs, {u})
  /\ IF pcs[u].proposalId \in DOMAIN proposals
       THEN /\ proposals' =
                 [proposals EXCEPT ![pcs[u].proposalId].title = "second"]
            /\ resp' = Observe("updateProposal", 200,
                               "Proposal updated successfully")
       ELSE /\ proposals' = proposals
            /\ resp' = Observe("updateProposal", 500,
                               "Failed to update proposal")
  /\ UNCHANGED <<ideas, subIdeas, prototypes, votes, comments, stars, nextId,
                 credited, hist, watch>>

\* ------------------------------- deletes, transaction by transaction
\* ProposalService.deleteProposal and PrototypeService.deletePrototype run in
\* session.withTransaction: the reads see the snapshot of the transaction,
\* and the writes take effect at the commit.
DeleteRequests == 2

DeleteConflictUndetected(r) == FALSE

\* The transaction cannot commit when a document it writes has changed since
\* its snapshot: the row it deletes is gone, or the idea it decrements was
\* written.  withTransaction then runs the callback again.  A write of a
\* counter since the snapshot shows in the rows created and deleted since.
DeleteConflict(r) ==
  \/ r.id \notin DOMAIN (IF r.kind = "proposal" THEN proposals ELSE prototypes)
  \/ r.snapIdea # <<nextId, DOMAIN proposals, DOMAIN prototypes,
                    IF r.ideaId \in DOMAIN ideas THEN <<ideas[r.ideaId]>> ELSE <<>> >>

\* The callback up to its writes, on the snapshot taken now: findById, the
\* authorization check, and the idea that the counter belongs to.
DeleteFind(q, u, kind, id) ==
  LET msg == IF kind = "proposal" THEN DeleteProposalCheck(u, id)
             ELSE DeletePrototypeCheck(u, id)
      op == IF kind = "proposal" THEN "deleteProposal" ELSE "deletePrototype"
      i == IF kind = "proposal" THEN subIdeas[proposals[id].subIdeaId].ideaId
           ELSE subIdeas[proposals[prototypes[id].proposalId].subIdeaId].ideaId
  IN /\ IF q \in DOMAIN pcs
          THEN /\ pcs[q].userId = u /\ pcs[q].kind = kind /\ pcs[q].id = id
               /\ DeleteConflict(pcs[q])
          ELSE \A x \in 1..DeleteRequests : x < q => x \in DOMAIN pcs
     /\ IF msg # "ok"
          THEN /\ pcs' = Remove(pcs, {q})
               /\ resp' = Observe(op, DeleteStatus(msg), msg)
          ELSE /\ pcs' = Put(Remove(pcs, {q}), q,
                             [userId |-> u, kind |-> kind, id |-> id,
                              ideaId |-> i,
                              snapIdea |->
                                <<nextId, DOMAIN proposals, DOMAIN prototypes,
                                  IF i \in DOMAIN ideas THEN <<ideas[i]>>
                                  ELSE <<>> >>])
               /\ resp' = resp
     /\ UNCHANGED <<ideas, subIdeas, proposals, prototypes, votes, comments,
                    stars, nextId, credited, hist, watch>>

\* findByIdAndDelete, $inc of -1 on the idea of the snapshot, and the commit.
DeleteCommit(q) ==
  /\ q \in DOMAIN pcs
  /\ ~DeleteConflict(pcs[q])
  /\ LET r == pcs[q] IN
       /\ IF r.kind = "proposal"
            THEN /\ proposals' = Remove(proposals, {r.id})
                 /\ ideas' = IF r.ideaId \in DOMAIN ideas
                               THEN IncTotalProposals(ideas, r.ideaId, -1)
                               ELSE ideas
                 /\ prototypes' = prototypes
                 /\ resp' = Observe("deleteProposal", 200,
                                    "Proposal deleted successfully")
            ELSE /\ prototypes' = Remove(prototypes, {r.id})
                 /\ ideas' = IF r.ideaId \in DOMAIN ideas
                               THEN IncTotalPrototypes(ideas, r.ideaId, -1)
                               ELSE ideas
                 /\ proposals' = proposals
                 /\ resp' = Observe("deletePrototype", 200,
                                    "Prototype deleted successfully")
       /\ credited' = Remove(credited, {<<r.kind, r.id>>})
  /\ pcs' = Remove(pcs, {q})
  /\ UNCHANGED <<subIdeas, votes, comments, stars, nextId, hist, watch>>

\* --------------------------- proposal submissions, statement by statement
\* The requests in flight, one per user: every await of the route and of the
\* service's transaction is a step of its own.
SubmitRoutes == {"prisma", "service"}

SubmitRequest(route, s, pc, i, total, pending, start) ==
  [route |-> route, subIdeaId |-> s, pc |-> pc, ideaId |-> i,
   snapTotal |-> total, snapPending |-> pending, startTotal |-> start,
   status |-> 0]

SubmitOp(route) == IF route = "prisma" THEN "submitProposal" ELSE "createProposal"

\* The handler answers and the request is over.
Done(u, status, msg) ==
  /\ pcs' = [pcs EXCEPT ![u].pc = "done", ![u].status = status]
  /\ resp' = Observe(SubmitOp(pcs[u].route), status, msg)
  /\ UNCHANGED <<hist, watch>>

Step(u, pc) ==
  /\ pcs' = [pcs EXCEPT ![u].pc = pc]
  /\ UNCHANGED <<resp, hist, watch>>

\* The transactions that have written the idea document and not committed.
Writers(reqs, i) ==
  {o \in DOMAIN reqs : /\ reqs[o].route = "service"
                       /\ reqs[o].pc = "commit"
                       /\ reqs[o].ideaId = i}

WriteConflictUndetected(reqs, idx, u) == FALSE

\* The write of a transaction conflicts when another transaction has written
\* the document and not committed, or when the document has changed since
\* the transaction's snapshot.
WriteConflict(reqs, idx, u) ==
  \/ Writers(reqs, reqs[u].ideaId) \ {u} # {}
  \/ /\ reqs[u].ideaId \in DOMAIN idx
     /\ idx[reqs[u].ideaId].totalProposals # reqs[u].snapTotal

\* The request arrives.
BeginSubmit(u, s, route) ==
  /\ u \notin DOMAIN pcs
  /\ pcs' = Put(pcs, u,
                SubmitRequest(route, s, "find", 0, 0, FALSE,
                              IF s \in DOMAIN subIdeas
                                   /\ subIdeas[s].ideaId \in DOMAIN ideas
                                THEN ideas[subIdeas[s].ideaId].totalProposals
                                ELSE 0))
  /\ UNCHANGED <<ideas, subIdeas, proposals, prototypes, votes, comments,
                 stars, nextId, credited, resp, hist, watch>>

\* prisma.subIdea.findUnique({ select: { ideaId } })
PrismaFind(u) ==
  /\ u \in DOMAIN pcs /\ pcs[u].route = "prisma" /\ pcs[u].pc = "find"
  /\ IF pcs[u].subIdeaId \in DOMAIN subIdeas
       THEN /\ pcs' = [pcs EXCEPT ![u].pc = "tx",
                                  ![u].ideaId = subIdeas[pcs[u].subIdeaId].ideaId]
            /\ UNCHANGED <<resp, hist, watch>>
       ELSE Done(u, 404, "Sub-idea not found.")
  /\ UNCHANGED <<ideas, subIdeas, proposals, prototypes, votes, comments,
                 stars, nextId, credited>>

\* prisma.$transaction([proposal.create, idea.update increment]): one atomic
\* batch, which waits for the row while a transaction holds it.
PrismaTx(u) ==
  /\ u \in DOMAIN pcs /\ pcs[u].route = "prisma" /\ pcs[u].pc = "tx"
  /\ Writers(pcs, pcs[u].ideaId) = {}
  /\ LET r == pcs[u] IN
       IF r.subIdeaId \in DOMAIN subIdeas /\ r.ideaId \in DOMAIN ideas
         THEN /\ nextId.proposal <= MaxProposals
              /\ proposals' = Put(proposals, nextId.proposal,
                                  NewProposal(u, r.subIdeaId))
              /\ ideas' = IncTotalProposals(ideas, r.ideaId, 1)
              /\ nextId' = [nextId EXCEPT !.proposal = @ + 1]
              /\ credited' = Put(credited, <<"proposal", nextId.proposal>>, 0)
              /\ Step(u, "stars")
         ELSE /\ Done(u, 404, "Sub-idea not found.")
              /\ UNCHANGED <<ideas, proposals, nextId, credited>>
  /\ UNCHANGED <<subIdeas, prototypes, votes, comments, stars>>

\* prisma.user.update({ stars: { increment: 2 } }) and the answer.
PrismaStars(u) ==
  /\ u \in DOMAIN pcs /\ pcs[u].route = "prisma" /\ pcs[u].pc = "stars"
  /\ stars' = [stars EXCEPT ![u] = @ + ProposalReward]
  /\ credited' =
       LET mine == {k \in DOMAIN credited :
                      /\ k[1] = "proposal" /\ k[2] \in DOMAIN proposals
                      /\ proposals[k[2]].authorId = u /\ credited[k] = 0}
       IN [k \in DOMAIN credited |->
             IF k \in mine THEN ProposalReward ELSE credited[k]]
  /\ Done(u, 201, "created")
  /\ UNCHANGED <<ideas, subIdeas, proposals, prototypes, votes, comments,
                 nextId>>

\* session.withTransaction: SubIdea.findById, the first read of the callback's
\* snapshot.
ServiceFind(u) ==
  /\ u \in DOMAIN pcs /\ pcs[u].route = "service" /\ pcs[u].pc = "find"
  /\ LET s == pcs[u].subIdeaId IN
       IF s \in DOMAIN subIdeas
         THEN /\ pcs' = [pcs EXCEPT
                  ![u].pc = "check",
                  ![u].ideaId = subIdeas[s].ideaId,
                  ![u].snapTotal =
                     IF subIdeas[s].ideaId \in DOMAIN ideas
                       THEN ideas[subIdeas[s].ideaId].totalProposals ELSE 0,
                  ![u].snapPending =
                     ExistingPendingProposal(proposals, u, s) # {}]
              /\ UNCHANGED <<resp, hist, watch>>
         ELSE Done(u, ProposalCreateStatus("Sub-idea not found"),
                   "Sub-idea not found")
  /\ UNCHANGED <<ideas, subIdeas, proposals, prototypes, votes, comments,
                 stars, nextId, credited>>

\* Proposal.findOne({ authorId, subIdeaId, status: PENDING }) in the snapshot.
ServiceCheck(u) ==
  /\ u \in DOMAIN pcs /\ pcs[u].route = "service" /\ pcs[u].pc = "check"
  /\ IF pcs[u].snapPending
       THEN Done(u, ProposalCreateStatus(
                      "You already have a pending proposal for this sub-idea"),
                 "You already have a pending proposal for this sub-idea")
       ELSE Step(u, "save")
  /\ UNCHANGED <<ideas, subIdeas, proposals, prototypes, votes, comments,
                 stars, nextId, credited>>

\* newProposal.save({ session }): an insert that nobody sees before the commit.
ServiceSave(u) ==
  /\ u \in DOMAIN pcs /\ pcs[u].route = "service" /\ pcs[u].pc = "save"
  /\ Step(u, "inc")
  /\ UNCHANGED <<ideas, subIdeas, proposals, prototypes, votes, comments,
                 stars, nextId, credited>>

\* Idea.findByIdAndUpdate({ $inc: { totalProposals: 1 } }, { session }): on a
\* write conflict the transaction aborts and withTransaction runs the callback
\* again.
ServiceInc(u) ==
  /\ u \in DOMAIN pcs /\ pcs[u].route = "service" /\ pcs[u].pc = "inc"
  /\ IF WriteConflict(pcs, ideas, u) THEN Step(u, "find") ELSE Step(u, "commit")
  /\ UNCHANGED <<ideas, subIdeas, proposals, prototypes, votes, comments,
                 stars, nextId, credited>>

\* The commit: the insert and the idea document the transaction wrote become
\* visible.
ServiceCommit(u) ==
  /\ u \in DOMAIN pcs /\ pcs[u].route = "service" /\ pcs[u].pc = "commit"
  /\ nextId.proposal <= MaxProposals
  /\ LET r == pcs[u] IN
       /\ proposals' = Put(proposals, nextId.proposal, NewProposal(u, r.subIdeaId))
       /\ ideas' = IF r.ideaId \in DOMAIN ideas
                     THEN [ideas EXCEPT ![r.ideaId].totalProposals =
                                           r.snapTotal + 1]
                     ELSE ideas
       /\ nextId' = [nextId EXCEPT !.proposal = @ + 1]
       /\ credited' = Put(credited, <<"proposal", nextId.proposal>>, 0)
  /\ Done(u, 201, "Proposal submitted successfully")
  /\ UNCHANGED <<subIdeas, prototypes, votes, comments, stars>>

\* ------------------------------------------------------ specifications
TxFaults == {"none", "tx"}

\* The state after construction: empty collections.
InitStore ==
  /\ ideas = <<>>
  /\ subIdeas = <<>>
  /\ proposals = <<>>
  /\ prototypes = <<>>
  /\ votes = EmptyBag
  /\ comments = <<>>
  /\ stars = [u \in Users |-> 0]
  /\ nextId = [idea |-> 1, subIdea |-> 1, proposal |-> 1, prototype |-> 1,
               comment |-> 1]
  /\ credited = <<>>
  /\ resp = NoResponse
  /\ hist = <<>>
  /\ pcs = <<>>

\* Spec: the handlers that create and delete proposals, every handler one
\* step.
Init ==
  /\ InitStore
  /\ watch = {"submitProposal", "createProposal"}

Next ==
  \/ \E u \in Users : CreateIdea(u)
  \/ \E u \in Users, i \in IdeaIds : CreateSubIdea(u, i, "Plan")
  \/ \E u \in Users, s \in SubIdeaIds, f \in Faults : SubmitProposal(u, s, f)
  \/ \E u \in Users, s \in SubIdeaIds, f \in TxFaults : CreateProposal(u, s, f)
  \/ \E u \in Users, p \in ProposalIds, st \in ProposalStatus, r \in Reasons :
       UpdateProposalStatus(u, p, st, r)
  \/ \E u \in Users, p \in ProposalIds, f \in TxFaults : DeleteProposal(u, p, f)

Spec == Init /\ [][Next]_vars

\* SpecPrototypes: the handlers that create and delete prototypes, under one
\* idea with one sub-idea.
PrototypeSpecIdeas == 1
PrototypeSpecSubIdeas == 1

InitPrototypes ==
  /\ InitStore
  /\ watch = {"createPrototype", "submitPrototype"}

NextPrototypes ==
  \/ \E u \in Users : nextId.idea <= PrototypeSpecIdeas /\ CreateIdea(u)
  \/ \E u \in Users, i \in IdeaIds :
       nextId.subIdea <= PrototypeSpecSubIdeas /\ CreateSubIdea(u, i, "Plan")
  \/ \E u \in Users, s \in SubIdeaIds : CreateProposal(u, s, "none")
  \/ \E u \in Users, p \in ProposalIds, st \in ProposalStatus, r \in Reasons :
       UpdateProposalStatus(u, p, st, r)
  \/ \E u \in Users, p \in ProposalIds, f \in TxFaults : CreatePrototype(u, p, f)
  \/ \E u \in Users, p \in ProposalIds, f \in TxFaults : SubmitPrototype(u, p, f)
  \/ \E u \in Users, p \in ProposalIds, f \in TxFaults : DeleteProposal(u, p, f)
  \/ \E u \in Users, r \in PrototypeIds, f \in TxFaults : DeletePrototype(u, r, f)

SpecPrototypes == InitPrototypes /\ [][NextPrototypes]_vars

\* SpecCascade: the cascade delete of an idea over sub-ideas, proposals,
\* prototypes, votes and comments created through the prisma routes.
CascadeSpecProposals == 1
CascadeSpecPrototypes == 1
CascadeSpecComments == 1
CascadeSpecVotes == 2

InitCascade ==
  /\ InitStore
  /\ watch = {"deleteIdea"}

NextCascade ==
  \/ \E u \in Users : CreateIdea(u)
  \/ \E i \in IdeaIds : CreateSubIdea(2, i, "Plan")
  \/ \E u \in Users, s \in SubIdeaIds :
       nextId.proposal <= CascadeSpecProposals /\ SubmitProposal(u, s, "none")
  \/ \E u \in Users, p \in ProposalIds :
       PatchProposalStatus(u, p, "ACCEPTED", NoReason)
  \/ \E u \in Users, p \in ProposalIds :
       nextId.prototype <= CascadeSpecPrototypes /\ SubmitPrototype(u, p, "none")
  \/ \E k \in VoteKinds, t \in SubIdeaIds \cup PrototypeIds :
       BagCardinality(votes) < CascadeSpecVotes /\ SubmitVote(2, k, t, 1)
  \/ \E k \in VoteKinds, t \in SubIdeaIds \cup PrototypeIds :
       nextId.comment <= CascadeSpecComments /\ CreateComment(1, k, t, NoParent)
  \/ \E i \in IdeaIds, k \in 0..CascadeSteps : DeleteIdea(i, k)

SpecCascade == InitCascade /\ [][NextCascade]_vars

\* SpecVotes: vote submissions one after the other on a sub-idea and a
\* prototype.
VoteSpecIdeas == 1
VoteSpecSubIdeas == 1
VoteSpecPrototypes == 1
VoteInputs == {1, -1, 0}

InitVotes ==
  /\ InitStore
  /\ watch = {"vote"}

VoteSetup ==
  \/ nextId.idea <= VoteSpecIdeas /\ CreateIdea(1)
  \/ \E i \in IdeaIds :
       nextId.subIdea <= VoteSpecSubIdeas /\ CreateSubIdea(1, i, "Plan")
  \/ \E s \in SubIdeaIds :
       nextId.proposal <= VoteSpecPrototypes /\ SubmitProposal(2, s, "none")
  \/ \E p \in ProposalIds : PatchProposalStatus(1, p, "ACCEPTED", NoReason)
  \/ \E p \in ProposalIds :
       nextId.prototype <= VoteSpecPrototypes /\ SubmitPrototype(2, p, "none")

NextVotes ==
  \/ VoteSetup
  \/ \E u \in Users, k \in VoteKinds, t \in 1..VoteSpecSubIdeas, v \in VoteInputs :
       SubmitVote(u, k, t, v)

SpecVotes == InitVotes /\ [][NextVotes]_vars

\* SpecVoteRace: vote submissions whose statements interleave.  A behaviour
\* follows the requests on one kind of target, which watch names.
InitVoteRace ==
  /\ InitStore
  /\ \E k \in VoteKinds : watch = {"vote", k}

NextVoteRace ==
  \/ VoteSetup
  \/ \E q \in VoteSlots, u \in Users, k \in VoteKinds,
        t \in 1..VoteSpecSubIdeas, v \in VoteValues :
       k \in watch /\ BeginVote(q, u, k, t, v)
  \/ \E q \in VoteSlots : FindTarget(q)
  \/ \E q \in VoteSlots : FindExisting(q)
  \/ \E q \in VoteSlots : WriteVote(q)
  \/ \E q \in VoteSlots : UpsertWrite(q)
  \/ \E q \in VoteSlots : CountAndRespond(q)

SpecVoteRace == InitVoteRace /\ [][NextVoteRace]_vars

\* SpecSubmit: every user submits one proposal under the one sub-idea, through
\* either route, and the statements of the requests interleave.
SubmitSpecIdeas == 1
SubmitSpecSubIdeas == 1

InitSubmit ==
  /\ InitStore
  /\ watch = {"submitProposal", "createProposal"}

NextSubmit ==
  \/ \E u \in Users : nextId.idea <= SubmitSpecIdeas /\ CreateIdea(u)
  \/ \E u \in Users, i \in IdeaIds :
       nextId.subIdea <= SubmitSpecSubIdeas /\ CreateSubIdea(u, i, "Plan")
  \/ \E u \in Users, s \in DOMAIN subIdeas, route \in SubmitRoutes :
       BeginSubmit(u, s, route)
  \/ \E u \in Users : PrismaFind(u)
  \/ \E u \in Users : PrismaTx(u)
  \/ \E u \in Users : PrismaStars(u)
  \/ \E u \in Users : ServiceFind(u)
  \/ \E u \in Users : ServiceCheck(u)
  \/ \E u \in Users : ServiceSave(u)
  \/ \E u \in Users : ServiceInc(u)
  \/ \E u \in Users : ServiceCommit(u)

SpecSubmit == InitSubmit /\ [][NextSubmit]_vars

\* SpecComments: comments and replies on a sub-idea and a prototype, and the
\* cascade delete that removes them.
CommentSpecTargets == 1

InitComments ==
  /\ InitStore
  /\ watch = {"comment"}

NextComments ==
  \/ VoteSetup
  \/ \E u \in Users, k \in VoteKinds, t \in 1..CommentSpecTargets,
        c \in {NoParent} \cup CommentIds : CreateComment(u, k, t, c)
  \/ \E i \in IdeaIds : DeleteIdea(i, 0)

SpecComments == InitComments /\ [][NextComments]_vars

\* SpecSubIdeaRace: sub-idea creations in flight together with each other and
\* with the close of the parent idea.
SubIdeaRaceIdeas == 1

InitSubIdeaRace ==
  /\ InitStore
  /\ watch = {"createSubIdea", "closeIdea"}

NextSubIdeaRace ==
  \/ \E u \in Users : nextId.idea <= SubIdeaRaceIdeas /\ CreateIdea(u)
  \/ \E u \in Users, i \in IdeaIds : CloseIdea(u, i)
  \/ \E q \in SubIdeaSlots, u \in Users, i \in 1..SubIdeaRaceIdeas, t \in Titles :
       BeginCreateSubIdea(q, u, i, t)
  \/ \E q \in SubIdeaSlots : FindParentIdea(q)
  \/ \E q \in SubIdeaSlots : FindExistingSubIdea(q)
  \/ \E q \in SubIdeaSlots : SaveSubIdea(q)

SpecSubIdeaRace == InitSubIdeaRace /\ [][NextSubIdeaRace]_vars

\* SpecTeam: prototypes of an accepted proposal and their teams.
InitTeam ==
  /\ InitStore
  /\ watch = {"addTeamMember", "removeTeamMember"}

NextTeam ==
  \/ \E u \in Users : nextId.idea <= PrototypeSpecIdeas /\ CreateIdea(u)
  \/ \E u \in Users, i \in IdeaIds :
       nextId.subIdea <= PrototypeSpecSubIdeas /\ CreateSubIdea(u, i, "Plan")
  \/ \E u \in Users, s \in SubIdeaIds : CreateProposal(u, s, "none")
  \/ \E u \in Users, p \in ProposalIds :
       UpdateProposalStatus(u, p, "ACCEPTED", NoReason)
  \/ \E u \in Users, p \in ProposalIds : CreatePrototype(u, p, "none")
  \/ \E u \in Users, p \in ProposalIds : SubmitPrototype(u, p, "none")
  \/ \E q \in Users, r \in PrototypeIds, u \in Users : AddTeamMember(q, r, u)
  \/ \E q \in Users, r \in PrototypeIds, u \in Users : RemoveTeamMember(q, r, u)

SpecTeam == InitTeam /\ [][NextTeam]_vars

\* SpecHierarchy: creating and closing ideas, creating sub-ideas.
InitHierarchy ==
  /\ InitStore
  /\ watch = {"createSubIdea", "closeIdea"}

NextHierarchy ==
  \/ \E u \in Users : CreateIdea(u)
  \/ \E u \in Users, i \in IdeaIds : CloseIdea(u, i)
  \/ \E u \in Users, i \in IdeaIds, t \in Titles : CreateSubIdea(u, i, t)

SpecHierarchy == InitHierarchy /\ [][NextHierarchy]_vars

\* SpecStatus: accepting and rejecting proposals through both PATCH
\* handlers, under one idea with one sub-idea.
StatusSpecIdeas == 1
StatusSpecSubIdeas == 1

\* req.body.status: the three members of the enum and one value outside it.
StatusInputs == ProposalStatus \cup {"DONE"}

InitStatus ==
  /\ InitStore
  /\ watch = {"updateProposalStatus", "patchProposalStatus"}

NextStatus ==
  \/ \E u \in Users : nextId.idea <= StatusSpecIdeas /\ CreateIdea(u)
  \/ \E u \in Users, i \in IdeaIds :
       nextId.subIdea <= StatusSpecSubIdeas /\ CreateSubIdea(u, i, "Plan")
  \/ \E u \in Users, s \in SubIdeaIds : SubmitProposal(u, s, "none")
  \/ \E u \in Users, p \in ProposalIds, st \in StatusInputs, r \in Reasons :
       UpdateProposalStatus(u, p, st, r)
  \/ \E u \in Users, p \in ProposalIds, st \in StatusInputs, r \in Reasons :
       PatchProposalStatus(u, p, st, r)

SpecStatus == InitStatus /\ [][NextStatus]_vars

\* SpecIdeas: updating, closing and deleting ideas through both routers, with
\* one sub-idea and one proposal below them.
IdeaSpecSubIdeas == 1
IdeaSpecProposals == 1

InitIdeas ==
  /\ InitStore
  /\ watch = {"updateIdea", "closeIdea", "deleteIdea", "serviceDeleteIdea"}

NextIdeas ==
  \/ \E u \in Users : CreateIdea(u)
  \/ \E u \in Users, i \in IdeaIds :
       nextId.subIdea <= IdeaSpecSubIdeas /\ CreateSubIdea(u, i, "Plan")
  \/ \E u \in Users, s \in SubIdeaIds :
       nextId.proposal <= IdeaSpecProposals /\ SubmitProposal(u, s, "none")
  \/ \E u \in Users, i \in IdeaIds, st \in IdeaStatusInputs : UpdateIdea(u, i, st)
  \/ \E u \in Users, i \in IdeaIds : CloseIdea(u, i)
  \/ \E u \in Users, i \in IdeaIds : IdeaServiceDeleteIdea(u, i)
  \/ \E i \in IdeaIds : DeleteIdea(i, 0)

SpecIdeas == InitIdeas /\ [][NextIdeas]_vars

\* SpecSubIdeas: updating, deleting and changing the status of sub-ideas,
\* with one proposal below them and ideas that the service deletes.
SubIdeaSpecIdeas == 1

InitSubIdeas ==
  /\ InitStore
  /\ watch = {"updateSubIdea", "changeSubIdeaStatus", "deleteSubIdea"}

NextSubIdeas ==
  \/ \E u \in Users : nextId.idea <= SubIdeaSpecIdeas /\ CreateIdea(u)
  \/ \E u \in Users, i \in IdeaIds, t \in Titles : CreateSubIdea(u, i, t)
  \/ \E u \in Users, s \in SubIdeaIds :
       nextId.proposal <= IdeaSpecProposals /\ SubmitProposal(u, s, "none")
  \/ \E u \in Users, i \in IdeaIds : IdeaServiceDeleteIdea(u, i)
  \/ \E u \in Users, s \in SubIdeaIds, t \in Titles \cup {"undefined"},
        st \in SubIdeaStatus \cup {"undefined", "DONE"} : UpdateSubIdea(u, s, t, st)
  \/ \E u \in Users, s \in SubIdeaIds,
        st \in SubIdeaStatus \cup {"undefined", "DONE"} : ChangeSubIdeaStatus(u, s, st)
  \/ \E u \in Users, s \in SubIdeaIds : DeleteSubIdea(u, s)

SpecSubIdeas == InitSubIdeas /\ [][NextSubIdeas]_vars

\* SpecProposalUpdate: updates of a proposal's content in flight together
\* with the status updates of the idea's author.
InitProposalUpdate ==
  /\ InitStore
  /\ watch = {"updateProposal", "updateProposalStatus"}

NextProposalUpdate ==
  \/ \E u \in Users : nextId.idea <= StatusSpecIdeas /\ CreateIdea(u)
  \/ \E u \in Users, i \in IdeaIds :
       nextId.subIdea <= StatusSpecSubIdeas /\ CreateSubIdea(u, i, "Plan")
  \/ \E u \in Users, s \in SubIdeaIds : CreateProposal(u, s, "none")
  \/ \E u \in Users, p \in ProposalIds, st \in ProposalStatus, r \in Reasons :
       UpdateProposalStatus(u, p, st, r)
  \/ \E u \in Users, p \in ProposalIds : FindProposalForUpdate(u, p)
  \/ \E u \in Users : WriteProposalUpdate(u)

SpecProposalUpdate == InitProposalUpdate /\ [][NextProposalUpdate]_vars

\* SpecDeleteRace: deletes of the same proposal or prototype in flight
\* together, between creations that write the same idea.
InitDeleteRace ==
  /\ InitStore
  /\ watch = {"deleteProposal", "deletePrototype"}

NextDeleteRace ==
  \/ \E u \in Users : nextId.idea <= PrototypeSpecIdeas /\ CreateIdea(u)
  \/ \E u \in Users, i \in IdeaIds :
       nextId.subIdea <= PrototypeSpecSubIdeas /\ CreateSubIdea(u, i, "Plan")
  \/ \E u \in Users, s \in SubIdeaIds : CreateProposal(u, s, "none")
  \/ \E p \in ProposalIds : UpdateProposalStatus(1, p, "ACCEPTED", NoReason)
  \/ \E p \in ProposalIds : CreatePrototype(2, p, "none")
  \/ \E q \in 1..DeleteRequests, u \in Users, k \in {"proposal", "prototype"},
        id \in ProposalIds \cup PrototypeIds : DeleteFind(q, u, k, id)
  \/ \E q \in 1..DeleteRequests : DeleteCommit(q)

SpecDeleteRace == InitDeleteRace /\ [][NextDeleteRace]_vars

\* ------------------------------------------------------------ claims

\* C1: after any sequence of proposal submissions (succeeding or failing) and
\* proposal deletions, every idea's totalProposals equals the number of
\* existing proposals whose sub-idea belongs to that idea.
C1_TotalProposalsIsCount ==
  \A i \in DOMAIN ideas :
    ideas[i].totalProposals
      = Cardinality(ProposalsOfIdea(subIdeas, proposals, i))

\* C1 witness: two proposals were created, one was deleted again, one idea
\* counts the remaining one, and the last submission failed.
C1_Witness ==
  /\ nextId.proposal = 3
  /\ Cardinality(DOMAIN proposals) = 1
  /\ \E i \in DOMAIN ideas : ideas[i].totalProposals = 1
  /\ \E i \in DOMAIN ideas : ideas[i].totalProposals = 0
  /\ resp.op \in {"submitProposal", "createProposal"}
  /\ resp.status >= 400

\* C2: after any sequence of prototype submissions, prototype deletions and
\* proposal deletions, every idea's totalPrototypes equals the number of
\* existing prototypes whose proposal's sub-idea belongs to that idea.
C2_TotalPrototypesIsCount ==
  \A i \in DOMAIN ideas :
    ideas[i].totalPrototypes
      = Cardinality(PrototypesOfIdea(subIdeas, proposals, prototypes, i))

C8_NotAcceptedIsForbidden ==
  [][\A u \in Users, p \in ProposalIds, f \in TxFaults :
       (/\ p \in DOMAIN proposals
        /\ proposals[p].status \in {"PENDING", "REJECTED"}
        /\ (SubmitPrototype(u, p, f) \/ CreatePrototype(u, p, f)))
       => (/\ resp'.status = 403
           /\ prototypes' = prototypes
           /\ ideas' = ideas)]_vars

\* C4: a successful DELETE /ideas/:id removes exactly the idea and the
\* sub-ideas, proposals and prototypes beneath it, every other row of these
\* tables is kept as it was, and afterwards no vote and no comment targets a
\* removed sub-idea or prototype while the votes and comments of other targets
\* are kept.
C4_CascadeRemovesDescendants ==
  [][\A i \in IdeaIds :
       (i \in DOMAIN ideas /\ i \notin DOMAIN ideas' /\ DeleteIdea(i, 0)) =>
         LET subs == SubIdeasOfIdea(subIdeas, i)
             props == ProposalsOfIdea(subIdeas, proposals, i)
             protos == PrototypesOfIdea(subIdeas, proposals, prototypes, i)
             gone(row) == \/ row.kind = "subIdea" /\ row.targetId \in subs
                          \/ row.kind = "prototype" /\ row.targetId \in protos
         IN /\ ideas' = Remove(ideas, {i})
            /\ subIdeas' = Remove(subIdeas, subs)
            /\ proposals' = Remove(proposals, props)
            /\ prototypes' = Remove(prototypes, protos)
            /\ \A r \in BagToSet(votes') : ~gone(r)
            /\ \A r \in BagToSet(votes) :
                 ~gone(r) => CopiesIn(r, votes') = CopiesIn(r, votes)
            /\ \A c \in DOMAIN comments' : ~gone(comments'[c])
            /\ \A c \in DOMAIN comments :
                 ~gone(comments[c]) =>
                   c \in DOMAIN comments' /\ comments'[c] = comments[c]
  ]_vars

\* A cascade delete has succeeded that removed a sub-idea, a proposal, a
\* prototype and a comment and a vote on them, next to a second idea whose
\* sub-idea and its vote are still there.
C4_Witness ==
  /\ resp.op = "deleteIdea" /\ resp.status = 200
  /\ nextId.idea = 3 /\ Cardinality(DOMAIN ideas) = 1
  /\ nextId.subIdea = 3 /\ Cardinality(DOMAIN subIdeas) = 1
  /\ nextId.proposal = 2 /\ DOMAIN proposals = {}
  /\ nextId.prototype = 2 /\ DOMAIN prototypes = {}
  /\ nextId.comment = 2 /\ DOMAIN comments = {}
  /\ BagCardinality(votes) = 1

\* C5: the cascade delete of an idea takes from every author exactly the stars
\* that author was credited for the idea and the sub-ideas, proposals and
\* prototypes removed with it.
C5_CascadeReversesCredits ==
  [][\A i \in IdeaIds :
       (i \in DOMAIN ideas /\ i \notin DOMAIN ideas' /\ DeleteIdea(i, 0)) =>
         LET subs == SubIdeasOfIdea(subIdeas, i)
             props == ProposalsOfIdea(subIdeas, proposals, i)
             protos == PrototypesOfIdea(subIdeas, proposals, prototypes, i)
             author(k) == IF k[1] = "idea" THEN ideas[k[2]].authorId
                          ELSE IF k[1] = "subIdea" THEN subIdeas[k[2]].authorId
                          ELSE IF k[1] = "proposal" THEN proposals[k[2]].authorId
                          ELSE prototypes[k[2]].authorId
             removed == {<<"idea", i>>}
                          \cup {<<"subIdea", x>> : x \in subs}
                          \cup {<<"proposal", x>> : x \in props}
                          \cup {<<"prototype", x>> : x \in protos}
             creditedTo(a) ==
               LET K == {k \in removed : author(k) = a}
               IN SumOver(K, [k \in K |-> credited[k]])
         IN \A a \in Users : stars'[a] = stars[a] - creditedTo(a)
  ]_vars

\* C6: a cascade delete in which a statement fails changes no star balance and
\* removes no row and answers with an error; a success answer comes only with
\* every statement applied.
C6_CascadeAllOrNothing ==
  [][\A i \in IdeaIds, k \in 0..CascadeSteps :
       (i \in DOMAIN ideas /\ resp'.op = "deleteIdea" /\ DeleteIdea(i, k)) =>
         /\ k # 0 => /\ Tables' = Tables
                     /\ resp'.status >= 400
         /\ resp'.status < 400 =>
              /\ k = 0
              /\ i \notin DOMAIN ideas'
              /\ SubIdeasOfIdea(subIdeas, i) \cap DOMAIN subIdeas' = {}
              /\ ProposalsOfIdea(subIdeas, proposals, i) \cap DOMAIN proposals' = {}
              /\ PrototypesOfIdea(subIdeas, proposals, prototypes, i)
                   \cap DOMAIN prototypes' = {}
              /\ \A a \in Users : stars'[a] = stars[a] - StarsToDeduct(Tables, i)[a]
  ]_vars

\* A cascade delete has failed on an idea that has a sub-idea, a proposal, a
\* prototype, a vote and a comment beneath it and whose authors hold stars.
C6_Witness ==
  /\ resp.op = "deleteIdea" /\ resp.status = 500
  /\ \E i \in DOMAIN ideas :
       /\ PrototypesOfIdea(subIdeas, proposals, prototypes, i) # {}
       /\ \E r \in BagToSet(votes) : TargetsIdea(Tables, r, i)
       /\ \E c \in DOMAIN comments : TargetsIdea(Tables, comments[c], i)
       /\ stars[ideas[i].authorId] > 0

\* C9: when a user without a vote on a target submits the same value twice in
\* a row, the second submission removes the vote: the user has no vote on the
\* target afterwards and the target's upvotes, downvotes and total are what
\* they were before the first submission.
C9_SameVoteTwiceRestores ==
  (/\ Len(hist) = 2
   /\ hist[1].userId = hist[2].userId
   /\ hist[1].kind = hist[2].kind
   /\ hist[1].targetId = hist[2].targetId
   /\ hist[1].value = hist[2].value
   /\ ~hist[1].hadVote)
  => /\ VotesOfUser(votes, hist[2].userId, hist[2].kind, hist[2].targetId) = {}
     /\ VoteCounts(votes, hist[2].kind, hist[2].targetId) = hist[1].before
     /\ hist[2].voteCounts = hist[1].before

\* The same downvote went in twice on a prototype that has another user's
\* upvote.
C9_Witness ==
  /\ Len(hist) = 2
  /\ hist[1].userId = hist[2].userId
  /\ hist[1].kind = "prototype" /\ hist[2].kind = "prototype"
  /\ hist[1].targetId = hist[2].targetId
  /\ hist[1].value = -1 /\ hist[2].value = -1
  /\ ~hist[1].hadVote
  /\ hist[1].action = "created" /\ hist[2].action = "removed"
  /\ hist[1].before.upvotes = 1

\* C10: whatever the interleaving of the statements of concurrent vote
\* submissions, the votes hold at most one row per user and sub-idea and at
\* most one row per user and prototype.
C10_OneVotePerUserAndTarget ==
  \A u \in Users, k \in VoteKinds, t \in SubIdeaIds \cup PrototypeIds :
    LET rows == VotesOfUser(votes, u, k, t)
    IN SumOver(rows, [r \in rows |-> CopiesIn(r, votes)]) <= 1

\* Two requests of one user on one target both found no vote; the first has
\* inserted its row and the insert of the second was refused.
C10_Witness ==
  /\ resp = Response("vote", 500, "Internal server error")
  /\ \E q \in DOMAIN pcs :
       /\ pcs[q].pc = "count"
       /\ pcs[q].existingVote = NoVote
       /\ VotesOfUser(votes, pcs[q].userId, pcs[q].kind, pcs[q].targetId) # {}

\* C3: when the users that concurrently submitted one proposal each under a
\* sub-idea have all been answered, every one of them was answered with
\* success and the totalProposals of the sub-idea's idea is the value it had
\* when the first of them arrived plus the number of them.
C3_ConcurrentSubmissionsAllCounted ==
  (DOMAIN pcs # {} /\ \A u \in DOMAIN pcs : pcs[u].pc = "done") =>
    /\ \A u \in DOMAIN pcs : pcs[u].status = 201
    /\ \A i \in DOMAIN ideas :
         LET reqs == {u \in DOMAIN pcs :
                       pcs[u].subIdeaId \in SubIdeasOfIdea(subIdeas, i)}
             start == CHOOSE n \in {pcs[u].startTotal : u \in reqs} :
                        \A u \in reqs : n <= pcs[u].startTotal
         IN reqs # {} => ideas[i].totalProposals = start + Cardinality(reqs)

\* Every user has submitted, through the route and through the service, the
\* requests overlapped (the later one arrived before the earlier one was
\* counted), and all are answered.
C3_Witness ==
  /\ DOMAIN pcs = Users
  /\ \A u \in Users : pcs[u].pc = "done" /\ pcs[u].startTotal = 0
  /\ \E u \in Users : pcs[u].route = "service"
  /\ \E u \in Users : pcs[u].route = "prisma"
  /\ \E i \in DOMAIN ideas : ideas[i].totalProposals = NumUsers

\* C11: a vote submission on an existing target moves the vote of the user on
\* the target as the machine says: no vote and submit(v) creates a vote of
\* value v ('created'); a vote of value v and submit(v) removes it
\* ('removed'); a vote of the other value and submit(v) changes it to v
\* ('updated'); no other row changes, and the counts returned are the numbers
\* of +1 and of -1 rows on the target, with total = upvotes - downvotes.
C11_VoteStateMachine ==
  [][\A u \in Users, k \in VoteKinds, t \in SubIdeaIds \cup PrototypeIds,
        v \in VoteValues :
       (TargetExists(k, t) /\ SubmitVote(u, k, t, v)) =>
         LET prev == FindVote(votes, u, k, t)
             mine(r) == r.userId = u /\ r.kind = k /\ r.targetId = t
             ups == {r \in BagToSet(votes') :
                       r.kind = k /\ r.targetId = t /\ r.value = 1}
             downs == {r \in BagToSet(votes') :
                         r.kind = k /\ r.targetId = t /\ r.value = -1}
             answer == hist'[Len(hist')]
         IN /\ prev = NoVote =>
                 FindVote(votes', u, k, t) = v /\ answer.action = "created"
            /\ prev = v =>
                 FindVote(votes', u, k, t) = NoVote /\ answer.action = "removed"
            /\ prev = -v =>
                 FindVote(votes', u, k, t) = v /\ answer.action = "updated"
            /\ \A r \in BagToSet(votes) \cup BagToSet(votes') :
                 /\ CopiesIn(r, votes') <= 1
                 /\ ~mine(r) => CopiesIn(r, votes') = CopiesIn(r, votes)
            /\ Cardinality({r \in BagToSet(votes') : mine(r)}) <= 1
            /\ resp'.status = 200
            /\ answer.voteCounts.upvotes = Cardinality(ups)
            /\ answer.voteCounts.downvotes = Cardinality(downs)
            /\ answer.voteCounts.total = Cardinality(ups) - Cardinality(downs)
  ]_vars

\* A user flipped an upvote to a downvote on a target that had two upvotes.
C11_Witness ==
  /\ Len(hist) = 2
  /\ hist[2].action = "updated" /\ hist[2].value = -1
  /\ hist[2].before = [upvotes |-> 2, downvotes |-> 0, total |-> 2]
  /\ hist[2].voteCounts = [upvotes |-> 1, downvotes |-> 1, total |-> 0]

\* C12: a comment that names a parent comment is created only if the parent
\* exists and has the target of the reply; otherwise the answer is 400 and the
\* comments are unchanged.  After every step each reply and its parent have
\* the same target.
C12_ReplySharesTarget ==
  [][/\ \A c \in DOMAIN comments' :
          comments'[c].parentCommentId # NoParent =>
            /\ comments'[c].parentCommentId \in DOMAIN comments'
            /\ comments'[comments'[c].parentCommentId].kind = comments'[c].kind
            /\ comments'[comments'[c].parentCommentId].targetId
                 = comments'[c].targetId
     /\ \A u \in Users, k \in VoteKinds, t \in SubIdeaIds \cup PrototypeIds,
           parent \in CommentIds :
          (TargetExists(k, t) /\ CreateComment(u, k, t, parent)) =>
            IF /\ parent \in DOMAIN comments
               /\ comments[parent].kind = k
               /\ comments[parent].targetId = t
              THEN /\ resp'.status = 201
                   /\ DOMAIN comments' = DOMAIN comments \cup {nextId.comment}
                   /\ comments'[nextId.comment].parentCommentId = parent
              ELSE /\ resp'.status = 400
                   /\ comments' = comments
  ]_vars

\* A reply was created under its parent on the sub-idea, and a reply that
\* named a comment of the sub-idea was then refused on the prototype.
C12_Witness ==
  /\ resp.op = "comment" /\ resp.status = 400
  /\ TargetExists("prototype", 1)
  /\ \E c \in DOMAIN comments :
       /\ comments[c].parentCommentId # NoParent
       /\ comments[c].kind = "subIdea"
  /\ \A c \in DOMAIN comments : comments[c].kind = "subIdea"

\* C13: there is at most one prototype per author and proposal.
C13_OnePrototypePerAuthorAndProposal ==
  \A r1 \in DOMAIN prototypes, r2 \in DOMAIN prototypes :
    (/\ prototypes[r1].authorId = prototypes[r2].authorId
     /\ prototypes[r1].proposalId = prototypes[r2].proposalId) => r1 = r2

\* C14: there is at most one proposal of status PENDING per author and
\* sub-idea.
C14_OnePendingPerAuthorAndSubIdea ==
  \A u \in Users, s \in SubIdeaIds :
    Cardinality(ExistingPendingProposal(proposals, u, s)) <= 1

\* C15: the status of a proposal only ever changes from PENDING to ACCEPTED
\* or from PENDING to REJECTED; once ACCEPTED or REJECTED it never changes
\* again, whatever status updates are requested and by whom.
C15_StatusIsOneWay ==
  [][\A p \in DOMAIN proposals :
       (p \in DOMAIN proposals' /\ proposals'[p].status # proposals[p].status)
         => /\ proposals[p].status = "PENDING"
            /\ proposals'[p].status \in {"ACCEPTED", "REJECTED"}
    ]_vars

C17_ClosedIdeaStaysClosed ==
  [][/\ \A i \in DOMAIN ideas' \ DOMAIN ideas : ideas'[i].status = "OPEN"
     /\ \A i \in DOMAIN ideas :
          (i \in DOMAIN ideas' /\ ideas[i].status = "CLOSED")
            => ideas'[i].status = "CLOSED"
    ]_vars

\* C18: an update, close or delete of an existing idea requested by a user
\* who is neither the idea's author nor an administrator is answered 403 and
\* leaves the ideas, sub-ideas, proposals, prototypes and every star balance
\* unchanged.
C18_StrangerCannotTouchIdea ==
  [][\A u \in Users, i \in IdeaIds :
       (/\ i \in DOMAIN ideas
        /\ ideas[i].authorId # u
        /\ UserRole(u) # "ADMIN"
        /\ \/ \E st \in IdeaStatusInputs : UpdateIdea(u, i, st)
           \/ CloseIdea(u, i)
           \/ IdeaServiceDeleteIdea(u, i)
           \/ DeleteIdea(i, 0))
         => /\ resp'.status = 403
            /\ UNCHANGED <<ideas, subIdeas, proposals, prototypes, stars>>
    ]_vars

\* C19: every user's star balance is at least 0 in every reachable state, in
\* particular after a cascade delete of an idea.
C19_StarsNeverNegative == \A u \in Users : stars[u] >= 0

\* C20: proposal submission is atomic in its three effects: a request that
\* ends with an error response has created no proposal, incremented no
\* counter and credited no stars, and one that ends with a success response
\* has done all three.
C20_SubmissionIsAtomic ==
  [][\A u \in Users, s \in SubIdeaIds, f \in Faults :
       (resp'.op = "submitProposal" /\ SubmitProposal(u, s, f)) =>
         IF resp'.status = 201
           THEN /\ DOMAIN proposals' = DOMAIN proposals \cup {nextId.proposal}
                /\ nextId.proposal \notin DOMAIN proposals
                /\ ideas'[subIdeas[s].ideaId].totalProposals
                     = ideas[subIdeas[s].ideaId].totalProposals + 1
                /\ stars'[u] = stars[u] + ProposalReward
           ELSE UNCHANGED <<proposals, ideas, stars>>
    ]_vars

\* C21: no sub-idea is inserted while its parent idea is CLOSED, under any
\* interleaving of sub-idea creations with the close of the idea.
C21_NoSubIdeaAfterClose ==
  [][\A s \in DOMAIN subIdeas' \ DOMAIN subIdeas :
       subIdeas'[s].ideaId \in DOMAIN ideas
         => ideas[subIdeas'[s].ideaId].status = "OPEN"
    ]_vars

\* C27: no two sub-ideas of the same author under the same idea have titles
\* that are equal ignoring case, also when creations run concurrently.
C27_TitlesUniquePerAuthorAndIdea ==
  \A s1 \in DOMAIN subIdeas, s2 \in DOMAIN subIdeas :
    (/\ subIdeas[s1].authorId = subIdeas[s2].authorId
     /\ subIdeas[s1].ideaId = subIdeas[s2].ideaId
     /\ Lower(subIdeas[s1].title) = Lower(subIdeas[s2].title)) => s1 = s2

\* C22: submitting a prototype for a proposal id for which no proposal exists
\* is answered 404, creates no prototype and changes no counter.
C22_UnknownProposalIsNotFound ==
  [][\A u \in Users, p \in ProposalIds, f \in TxFaults :
       (/\ p \notin DOMAIN proposals
        /\ resp'.op \in {"submitPrototype", "createPrototype"}
        /\ (SubmitPrototype(u, p, f) \/ CreatePrototype(u, p, f)))
         => /\ resp'.status = 404
            /\ UNCHANGED <<prototypes, ideas>>
    ]_vars

\* C23: a proposal has a rejection reason if and only if its status is
\* REJECTED.
C23_ReasonIffRejected ==
  \A p \in DOMAIN proposals :
    (proposals[p].rejectionReason # NoReason) <=> (proposals[p].status = "REJECTED")

\* C24: in every reachable state the author of a prototype is a member of
\* the prototype's team.
C24_AuthorIsInTeam ==
  \A r \in DOMAIN prototypes : prototypes[r].authorId \in prototypes[r].team

C26_ContentChangesOnlyWhilePending ==
  [][\A p \in DOMAIN proposals :
       (p \in DOMAIN proposals' /\ proposals'[p].title # proposals[p].title)
         => proposals[p].status = "PENDING"
    ]_vars

\* C28: every idea's totalProposals and totalPrototypes are at least 0, and
\* in every step each counter moves by the number of proposals (prototypes)
\* of the idea inserted minus the number deleted, also when two requests
\* delete the same row concurrently.
C28_CountersNeverNegative ==
  [][\A i \in DOMAIN ideas' :
       /\ ideas'[i].totalProposals >= 0
       /\ ideas'[i].totalPrototypes >= 0
       /\ i \in DOMAIN ideas =>
            LET goneP == {p \in DOMAIN proposals \ DOMAIN proposals' :
                            subIdeas[proposals[p].subIdeaId].ideaId = i}
                newP == {p \in DOMAIN proposals' \ DOMAIN proposals :
                           subIdeas'[proposals'[p].subIdeaId].ideaId = i}
                goneR == {r \in DOMAIN prototypes \ DOMAIN prototypes' :
                            subIdeas[proposals[prototypes[r].proposalId].subIdeaId].ideaId = i}
                newR == {r \in DOMAIN prototypes' \ DOMAIN prototypes :
                           subIdeas'[proposals'[prototypes'[r].proposalId].subIdeaId].ideaId = i}
            IN /\ ideas'[i].totalProposals
                    = ideas[i].totalProposals + Cardinality(newP) - Cardinality(goneP)
               /\ ideas'[i].totalPrototypes
                    = ideas[i].totalPrototypes + Cardinality(newR) - Cardinality(goneR)
    ]_vars

\* C28 witness: two requests were deleting the only proposal; one has
\* committed, the counter is 0, and the other is still in flight for the row
\* that is gone.
C28_Witness ==
  /\ nextId.proposal = 2 /\ DOMAIN proposals = {}
  /\ \A i \in DOMAIN ideas : ideas[i].totalProposals = 0
  /\ DOMAIN ideas # {}
  /\ \E q \in DOMAIN pcs : pcs[q].kind = "proposal" /\ pcs[q].id = 1
  /\ resp.op = "deleteProposal" /\ resp.status = 200

\* C29: referential integrity: in every reachable state every sub-idea's
\* parent idea exists, every proposal's sub-idea exists and every prototype's
\* proposal exists.
C29_ReferentialIntegrity ==
  /\ \A s \in DOMAIN subIdeas : subIdeas[s].ideaId \in DOMAIN ideas
  /\ \A p \in DOMAIN proposals : proposals[p].subIdeaId \in DOMAIN subIdeas
  /\ \A r \in DOMAIN prototypes : prototypes[r].proposalId \in DOMAIN proposals

\* C30: the cascade delete of idea a leaves every other idea with its
\* counters, and every sub-idea, proposal, prototype, vote and comment that
\* does not descend from a, unchanged, and changes the stars only of users
\* who authored a or one of a's descendant sub-ideas, proposals or prototypes.
C30_CascadeTouchesOnlyDescendants ==
  [][\A a \in DOMAIN ideas \ DOMAIN ideas' :
       LET subA == {s \in DOMAIN subIdeas : subIdeas[s].ideaId = a}
           propA == {p \in DOMAIN proposals : proposals[p].subIdeaId \in subA}
           protoA == {r \in DOMAIN prototypes :
                        prototypes[r].proposalId \in propA}
           Beneath(row) ==
             IF row.kind = "subIdea" THEN row.targetId \in subA
             ELSE row.targetId \in protoA
           authorsA == {ideas[a].authorId}
                         \cup {subIdeas[s].authorId : s \in subA}
                         \cup {proposals[p].authorId : p \in propA}
                         \cup {prototypes[r].authorId : r \in protoA}
       IN /\ \A j \in DOMAIN ideas \ {a} :
               j \in DOMAIN ideas' /\ ideas'[j] = ideas[j]
          /\ \A s \in DOMAIN subIdeas \ subA :
               s \in DOMAIN subIdeas' /\ subIdeas'[s] = subIdeas[s]
          /\ \A p \in DOMAIN proposals \ propA :
               p \in DOMAIN proposals' /\ proposals'[p] = proposals[p]
          /\ \A r \in DOMAIN prototypes \ protoA :
               r \in DOMAIN prototypes' /\ prototypes'[r] = prototypes[r]
          /\ \A v \in DOMAIN votes :
               ~Beneath(v) => v \in DOMAIN votes' /\ votes'[v] = votes[v]
          /\ \A c \in DOMAIN comments :
               ~Beneath(comments[c]) =>
                  c \in DOMAIN comments' /\ comments'[c] = comments[c]
          /\ \A u \in Users : stars'[u] # stars[u] => u \in authorsA
    ]_vars

\* C30 witness: idea 2 and its sub-idea 2 were deleted by the cascade while
\* idea 1 keeps its older sub-idea 1 and a vote or a comment on it.
C30_Witness ==
  /\ resp.op = "deleteIdea" /\ resp.status = 200
  /\ nextId.idea = 3 /\ DOMAIN ideas = {1}
  /\ nextId.subIdea = 3 /\ DOMAIN subIdeas = {1}
  /\ subIdeas[1].ideaId = 1
  /\ \/ \E v \in DOMAIN votes : v.kind = "subIdea" /\ v.targetId = 1
     \/ \E c \in DOMAIN comments :
          comments[c].kind = "subIdea" /\ comments[c].targetId = 1

====
